---- MODULE Spec2Model ----
(***************************************************************************)
(* Ceph RGW multisite observability: the primary collector                 *)
(* (backend/collector.py), its in-memory store and the API server's        *)
(* collector lifecycle (backend/api_server.py).                            *)
(*                                                                         *)
(* Numbers. Object counts and sizes are non-negative integers.  A progress *)
(* percentage before rounding is the exact rational [n, d] (n/d, d > 0);   *)
(* round(x, 2) yields an integer number of hundredths (8000 is 80.00).     *)
(* A Python Optional is a sequence of length 0 (None) or 1.                *)
(***************************************************************************)
EXTENDS Integers, Sequences, FiniteSets, TLC

\* ------------------------------------------------------------------ bounds
max_snapshots == 2
MaxObjects == 3
MaxSizeKb == 1
MaxAppends == 4
MaxCycles == 2
MaxRestarts == 1
MaxManual == 1
MaxShards == 2
MaxEntries == 2
MaxZonegroups == 2
MaxZones == 2
MaxAgentCycles == 6
interval == 2
MaxPushes == 4
MaxLines == 4

\* ------------------------------------------------------------------ names
Buckets == {"b1", "b2"}
\* order in which a bucket stats result lists its buckets (dict order)
BucketSeq == <<"b1", "b2">>
MasterZone == "z0"
SecondaryZones == {"z1", "z2"}

None == <<>>
Some(v) == <<v>>

Max2(a, b) == IF a >= b THEN a ELSE b

RECURSIVE Range(_)
Range(s) == IF s = <<>> THEN {} ELSE {Head(s)} \cup Range(Tail(s))

EmptyDict == [x \in {} |-> 0]

\* ------------------------------------------------------------ SyncDataStore
\* The body of add_bucket_snapshot / add_global_snapshot, run under the lock:
\* h.append(snapshot); if len(h) > max_snapshots: h.pop(0)
BoundedAppendPopLast(h, snapshot) ==
    LET a == Append(h, snapshot)
    IN  IF Len(a) > max_snapshots THEN SubSeq(a, 1, Len(a) - 1) ELSE a
BoundedAppend(h, snapshot) ==
    LET a == Append(h, snapshot)
    IN  IF Len(a) > max_snapshots THEN Tail(a) ELSE a

\* ------------------------------------------------- bucket stats (pure part)
\* One record of a "bucket stats" result as the command prints it.
RawUsage == [num_objects : 0..MaxObjects, size_kb_actual : 0..MaxSizeKb]

\* _parse_bucket_stats, per item: size_actual = size_kb_actual * 1024
ParseItem(item) ==
    [num_objects |-> item.num_objects, size_actual |-> item.size_kb_actual * 1024]
_parse_bucket_stats(raw) == [b \in DOMAIN raw |-> ParseItem(raw[b])]

\* The default of zone_stats.get(zone, {}).get(bucket_name, {...})
ZeroStats == [num_objects |-> 0, size_actual |-> 0]

\* zone_stats.get(zone["name"], {}).get(bucket_name, {zeros})
SecStatsAsPrimary(zone_stats, zn, b) ==
    IF zn \in DOMAIN zone_stats /\ b \in DOMAIN zone_stats[zn]
    THEN zone_stats[zn][b]
    ELSE zone_stats[MasterZone][b]
SecStats(zone_stats, zn, b) ==
    IF zn \in DOMAIN zone_stats /\ b \in DOMAIN zone_stats[zn]
    THEN zone_stats[zn][b]
    ELSE ZeroStats

\* Exact rationals n/d with d > 0
Rat(n, d) == [n |-> n, d |-> d]
RatLeq(x, y) == x.n * y.d <= y.n * x.d
RatMin(x, y) == IF RatLeq(x, y) THEN x ELSE y
Hundred == Rat(100, 1)

\* round(x, 2): nearest hundredth, ties to even
Round2(x) ==
    LET num == x.n * 100
        q == num \div x.d
        r == num % x.d
    IN  IF 2 * r < x.d THEN q
        ELSE IF 2 * r > x.d THEN q + 1
        ELSE IF q % 2 = 0 THEN q ELSE q + 1

\* pct of one secondary: collector.py 1064-1068
PctNoClamp(primary, sec) ==
    IF primary.num_objects > 0
    THEN Rat(sec.num_objects * 100, primary.num_objects)
    ELSE IF primary.num_objects = 0 /\ sec.num_objects = 0
         THEN Hundred
         ELSE Rat(0, 1)
Pct(primary, sec) ==
    IF primary.num_objects > 0
    THEN RatMin(Rat(sec.num_objects * 100, primary.num_objects), Hundred)
    ELSE IF primary.num_objects = 0 /\ sec.num_objects = 0
         THEN Hundred
         ELSE Rat(0, 1)

\* snapshot["replicas"][zone["name"]] = {...}: collector.py 1061-1075
ReplicaEntryNoClamp(primary, sec) ==
    [stats |-> sec,
     delta_objects |-> primary.num_objects - sec.num_objects,
     delta_size |-> primary.size_actual - sec.size_actual,
     sync_progress_pct |-> Round2(Pct(primary, sec))]
ReplicaEntry(primary, sec) ==
    [stats |-> sec,
     delta_objects |-> Max2(primary.num_objects - sec.num_objects, 0),
     delta_size |-> Max2(primary.size_actual - sec.size_actual, 0),
     sync_progress_pct |-> Round2(Pct(primary, sec))]

\* The loop over self.topology.secondary_zones, collector.py 1053-1078:
\* the state after the first i zones.
RECURSIVE CompareLoopLast(_, _, _, _)
CompareLoopLast(secs, zone_stats, b, i) ==
    IF i = 0
    THEN [replicas |-> EmptyDict, worst_pct |-> Hundred,
          total_delta_obj |-> 0, total_delta_size |-> 0]
    ELSE LET prev == CompareLoopLast(secs, zone_stats, b, i - 1)
             zn == secs[i]
             primary == zone_stats[MasterZone][b]
             sec == SecStats(zone_stats, zn, b)
             e == ReplicaEntry(primary, sec)
         IN  [replicas |-> [z \in DOMAIN prev.replicas \cup {zn} |->
                               IF z = zn THEN e ELSE prev.replicas[z]],
              worst_pct |-> Pct(primary, sec),
              total_delta_obj |-> prev.total_delta_obj + e.delta_objects,
              total_delta_size |-> prev.total_delta_size + e.delta_size]
RECURSIVE CompareLoop(_, _, _, _)
CompareLoop(secs, zone_stats, b, i) ==
    IF i = 0
    THEN [replicas |-> EmptyDict, worst_pct |-> Hundred,
          total_delta_obj |-> 0, total_delta_size |-> 0]
    ELSE LET prev == CompareLoop(secs, zone_stats, b, i - 1)
             zn == secs[i]
             primary == zone_stats[MasterZone][b]
             sec == SecStats(zone_stats, zn, b)
             e == ReplicaEntry(primary, sec)
         IN  [replicas |-> [z \in DOMAIN prev.replicas \cup {zn} |->
                               IF z = zn THEN e ELSE prev.replicas[z]],
              worst_pct |-> RatMin(prev.worst_pct, Pct(primary, sec)),
              total_delta_obj |-> prev.total_delta_obj + e.delta_objects,
              total_delta_size |-> prev.total_delta_size + e.delta_size]

\* The snapshot built for one bucket of primary_stats: collector.py 1039-1082
SnapshotAlwaysCompare(secs, zone_stats, has_comparison_data, b, ts) ==
    LET r == CompareLoop(secs, zone_stats, b, Len(secs))
    IN  [timestamp |-> ts, primary_zone |-> MasterZone,
         primary |-> zone_stats[MasterZone][b],
         replicas |-> r.replicas,
         no_secondary_data |-> ~has_comparison_data,
         single_zone |-> Len(secs) = 0,
         sync_progress_pct |-> Some(Round2(r.worst_pct)),
         delta_objects |-> r.total_delta_obj,
         delta_size |-> r.total_delta_size,
         sync_status |-> None]
Snapshot(secs, zone_stats, has_comparison_data, b, ts) ==
    LET r == CompareLoop(secs, zone_stats, b, Len(secs))
    IN  [timestamp |-> ts, primary_zone |-> MasterZone,
         primary |-> zone_stats[MasterZone][b],
         replicas |-> IF has_comparison_data THEN r.replicas ELSE EmptyDict,
         no_secondary_data |-> ~has_comparison_data,
         single_zone |-> Len(secs) = 0,
         sync_progress_pct |->
             IF has_comparison_data THEN Some(Round2(r.worst_pct)) ELSE None,
         delta_objects |-> IF has_comparison_data THEN r.total_delta_obj ELSE 0,
         delta_size |-> IF has_comparison_data THEN r.total_delta_size ELSE 0,
         sync_status |-> None]

\* Iteration order of a stats dict (the order the command listed the buckets)
KeysSeq(d) == SelectSeq(BucketSeq, LAMBDA b : b \in DOMAIN d)

\* -------------------------------------------------------------- the state
Cids == 1..(MaxRestarts + 1)
RunTids == Cids
ManualTids == (MaxRestarts + 2)..(MaxRestarts + 1 + MaxManual)
Tids == RunTids \cup ManualTids

VARIABLES
    bucket_history,    \* SyncDataStore.bucket_history: bucket -> list
    global_history,    \* SyncDataStore.global_history
    bucket_errors,     \* SyncDataStore.bucket_errors: bucket -> list
    global_errors,     \* SyncDataStore.global_errors
    appended,          \* history of the store calls, for stating C1
    collector,         \* api_server.collector: 0 is None
    collector_thread,  \* api_server.collector_thread: 0 is None
    collectors,        \* the SyncCollector objects created so far
    threads,           \* the collector threads: run loops and manual cycles
    clock,             \* datetime.now at the next cycle start
    cycles,            \* cycles started so far
    api,               \* the POST /api/config handler
    view,              \* a dict returned by get_dashboard_data, as its holder sees it
    disc,              \* a MultisiteTopology being discovered
    agent,             \* the zone agent process (zone_agent.main)
    zone_agent_data,   \* SyncDataStore.zone_agent_data: zone -> payload
    zone_agent_history,\* SyncDataStore.zone_agent_history: zone -> list
    pushed,            \* the update_zone_agent calls made, in order
    parse,             \* a sync status text and what the two parsers made of it
    listing            \* the response to a GET /api/buckets request, if any

vars == <<bucket_history, global_history, bucket_errors, global_errors,
          appended, collector, collector_thread, collectors, threads,
          clock, cycles, api, view, disc, agent,
          zone_agent_data, zone_agent_history, pushed, parse, listing>>

storeVars == <<bucket_history, global_history, bucket_errors, global_errors>>
apiVars == <<collector, collector_thread, collectors, api>>
zoneVars == <<zone_agent_data, zone_agent_history, pushed>>
sideVars == <<disc, agent, zoneVars, parse, listing>>
notAgent == <<storeVars, appended, view, disc, zoneVars, parse, listing,
              apiVars, threads, clock, cycles>>
otherVars == <<view, sideVars>>

NoCollector ==
    [stop |-> FALSE, initialized |-> FALSE, secondary_zones |-> <<>>,
     rest |-> {},
     \* what initialize was given, kept for stating the properties:
     setup |-> [secondary_zones |-> <<>>, rest |-> {}]]
\* a collector whose initialize has returned: topology.secondary_zones and
\* the zones of zone_rest_apis
Initialized(tp) ==
    [stop |-> FALSE, initialized |-> TRUE,
     secondary_zones |-> tp.secondary_zones,
     rest |-> tp.rest,
     setup |-> tp]
NoThread ==
    [kind |-> "none", coll |-> 0, pc |-> "none", ts |-> 0,
     zone_stats |-> EmptyDict, zones_with_data |-> <<>>, keys |-> <<>>,
     i |-> 0,
     \* what the cycle did, kept for stating the properties:
     ran |-> {}, failed |-> {}, attempted |-> {}, raised |-> FALSE,
     got |-> {}, errs |-> None,
     via |-> <<>>]    \* the bucket stats fetches made, in order

\* no get_dashboard_data call has returned yet
NoView ==
    [taken |-> FALSE,
     returned |-> [b \in Buckets |-> <<>>],
     buckets |-> [b \in Buckets |-> <<>>]]
\* MultisiteTopology.__init__, before SyncCollector.initialize is called;
\* probe and cmds record what validate_ceph_access saw and which commands
\* discover issued, each with its outcome
NoDiscovery ==
    [pc |-> "none", probe |-> "none", cmds |-> <<>>,
     zones |-> <<>>, zonegroups |-> <<>>,
     master_zone |-> 0,          \* index into zones, 0 is None
     secondary_zones |-> <<>>]   \* indices into zones
\* zone_agent.main before its loop: running = True, consecutive_failures = 0.
\* payload is the number of the cycle whose collect_all built it (0: none);
\* pushes, push, warned and failed_in_row record what the loop did.
NoAgent ==
    [pc |-> "none", running |-> TRUE, consecutive_failures |-> 0,
     cycle |-> 0, payload |-> 0, slept |-> 0,
     pushes |-> <<>>,         \* the payloads handed to urlopen, in order
     push |-> "none",         \* this cycle's push: none, http_<status>, ...
     success |-> FALSE,       \* what push_to_primary returned this cycle
     warned |-> FALSE,        \* the warning was logged in this cycle
     failed_in_row |-> 0]     \* pushes that failed since the last success

\* the zone names agents push under; the push endpoint accepts a zone the
\* topology does not know
AgentZones == {"z1", "z2"}

\* nothing outside the collector and its store has happened
OthersIdle ==
    /\ view = NoView
    /\ disc = NoDiscovery
    /\ agent = NoAgent
    /\ zone_agent_data = [z \in AgentZones |-> None]
    /\ zone_agent_history = [z \in AgentZones |-> <<>>]
    /\ pushed = <<>>
    /\ parse = [text |-> <<>>, collector |-> None, agent |-> None]
    /\ listing = None

EmptyStore ==
    /\ bucket_history = [b \in Buckets |-> <<>>]
    /\ global_history = <<>>
    /\ bucket_errors = [b \in Buckets |-> <<>>]
    /\ global_errors = <<>>
    /\ appended = [bucket |-> [b \in Buckets |-> <<>>], global |-> <<>>]

\* ------------------------------------------------------- store operations
\* SyncDataStore.add_bucket_snapshot: one critical section of the store lock
add_bucket_snapshot(b, snapshot) ==
    bucket_history' = [bucket_history EXCEPT ![b] = BoundedAppend(@, snapshot)]

\* SyncDataStore.add_global_snapshot
add_global_snapshot(snapshot) ==
    global_history' = BoundedAppend(global_history, snapshot)

\* ------------------------------------------------------ command results
\* run_cli_json(["bucket", "stats", ...]): an error result or the decoded list
CliError == [err |-> TRUE, data |-> EmptyDict]
CliOk(d) == [err |-> FALSE, data |-> d]

\* SyncCollector._get_bucket_stats_cli: {} on error, else the parsed dict
_get_bucket_stats_cli(result) ==
    IF result.err THEN EmptyDict ELSE _parse_bucket_stats(result.data)

\* RGWRestAPI.get_bucket_stats: the decoded body, an error dict (request failed
\* or status not 200), or an exception out of resp.json() (body is not JSON)
RestError == [kind |-> "error", data |-> EmptyDict]
RestRaise == [kind |-> "raise", data |-> EmptyDict]
RestOk(d) == [kind |-> "ok", data |-> d]

\* SyncCollector._get_bucket_stats_rest, for a zone with a registered client
_get_bucket_stats_rest(result) ==
    IF result.kind = "error" THEN EmptyDict ELSE _parse_bucket_stats(result.data)

\* run_cli_raw: [err |-> TRUE] or the text (its content is not modelled here)
RawResults == {[err |-> TRUE], [err |-> FALSE]}

\* sync error list --format=json: an error result, or a list of shards
\* {"shard_id": n, "entries": [{"id", "name", "info"}, ...]}.  A name is
\* modelled as its pieces between and including the ":" separators;
\* info_ok tells whether "info" is a dict (a JSON null is not).
RawEntry(id, name, info_ok) == [id |-> id, name |-> name, info_ok |-> info_ok]
Shard(shard_id, entries) == [shard_id |-> shard_id, entries |-> entries]

\* raw_name.split(":", 1)[0] if raw_name else ""
RECURSIVE BeforeColon(_)
BeforeColon(raw_name) ==
    IF raw_name = <<>> \/ Head(raw_name) = ":" THEN <<>>
    ELSE <<Head(raw_name)>> \o BeforeColon(Tail(raw_name))
BucketName(raw_name) ==
    IF BeforeColon(raw_name) = <<>> THEN "" ELSE BeforeColon(raw_name)[1]

\* the error dict built for one entry, collector.py 1236-1246
ErrEntry(shard, entry) ==
    [shard_id |-> shard.shard_id, entry_id |-> entry.id,
     raw_name |-> entry.name, bucket |-> BucketName(entry.name)]
\* global_errors as the two loops of collector.py 1215-1248 build it
RECURSIVE FlattenReversed(_)
FlattenReversed(shards) ==
    IF shards = <<>> THEN <<>>
    ELSE FlattenReversed(Tail(shards))
         \o [k \in 1..Len(Head(shards).entries) |->
                ErrEntry(Head(shards), Head(shards).entries[k])]
RECURSIVE Flatten(_)
Flatten(shards) ==
    IF shards = <<>> THEN <<>>
    ELSE [k \in 1..Len(Head(shards).entries) |->
             ErrEntry(Head(shards), Head(shards).entries[k])]
         \o Flatten(Tail(shards))
\* for bkt, errs in bucket_errors.items(): set_bucket_errors(bkt, errs),
\* the local dict holding the buckets named by at least one entry
SetBucketErrorsAll(old, errors) ==
    [b \in Buckets |-> SelectSeq(errors, LAMBDA e : e.bucket = b)]
SetBucketErrors(old, errors) ==
    [b \in Buckets |->
        IF SelectSeq(errors, LAMBDA e : e.bucket = b) # <<>>
        THEN SelectSeq(errors, LAMBDA e : e.bucket = b)
        ELSE old[b]]
\* info.get(...) on an info that is not a dict: AttributeError
ErrorsRaise(shards) ==
    \E i \in DOMAIN shards : \E k \in DOMAIN shards[i].entries :
        ~shards[i].entries[k].info_ok

\* ------------------------------------------------------------ input sets
FixedUsage == [num_objects |-> 1, size_kb_actual |-> 1]
AllDicts == UNION {[S -> RawUsage] : S \in SUBSET Buckets}
\* every count and size for b1; b2 present or not
RichDicts == {d \in AllDicts : "b2" \in DOMAIN d => d["b2"] = FixedUsage}
ThinDicts == {[b \in Buckets |-> FixedUsage]}
OneBucketDicts == {[b \in {"b1"} |-> FixedUsage]}

ErrorLists ==
    {[err |-> TRUE, shards |-> <<>>],
     [err |-> FALSE, shards |-> <<>>],
     [err |-> FALSE,
      shards |-> <<Shard(0, <<RawEntry(1, <<"b1", ":", "s">>, TRUE)>>),
                   Shard(1, <<>>)>>]}

\* every list of up to MaxShards shards of up to MaxEntries entries, named
\* after b1, after b2 or not at all; a failed command; an entry whose info
\* is null
RawEntries ==
    {RawEntry(1, name, TRUE) :
        name \in {<<"b1", ":", "s">>, <<"b2", ":", "s">>, <<>>}}
EntryLists == UNION {[1..n -> RawEntries] : n \in 0..MaxEntries}
ShardLists ==
    UNION {{[i \in 1..n |-> Shard(i - 1, f[i])] : f \in [1..n -> EntryLists]} :
              n \in 0..MaxShards}
RichErrorLists ==
    {[err |-> TRUE, shards |-> <<>>],
     [err |-> FALSE,
      shards |-> <<Shard(0, <<RawEntry(1, <<"b1", ":", "s">>, FALSE)>>)>>]}
    \cup {[err |-> FALSE, shards |-> sh] : sh \in ShardLists}

\* every bucket stats result; the later commands succeed
RichIn ==
    [stats |-> {CliError} \cup {CliOk(d) : d \in RichDicts},
     rest |-> {RestError, RestRaise} \cup {RestOk(d) : d \in RichDicts},
     raw |-> {[err |-> FALSE]},
     errs |-> {[err |-> FALSE, shards |-> <<>>]}]
\* every command free to fail
FailIn ==
    [stats |-> {CliError} \cup {CliOk(d) : d \in ThinDicts},
     rest |-> {RestError, RestRaise} \cup {RestOk(d) : d \in ThinDicts},
     raw |-> RawResults,
     errs |-> ErrorLists]
\* a bucket stats command or request that fails or succeeds; the later
\* commands succeed
PathIn ==
    [stats |-> {CliError} \cup {CliOk(d) : d \in OneBucketDicts},
     rest |-> {RestError, RestRaise} \cup {RestOk(d) : d \in OneBucketDicts},
     raw |-> {[err |-> FALSE]},
     errs |-> {[err |-> FALSE, shards |-> <<>>]}]
\* bucket stats that fail, or hold b1 alone, or both buckets, b1 with one
\* object or two; the later commands succeed
ListDicts ==
    ThinDicts \cup OneBucketDicts \cup
    {[b \in Buckets |-> IF b = "b1"
                        THEN [num_objects |-> 2, size_kb_actual |-> 1]
                        ELSE FixedUsage]}
ListIn ==
    [stats |-> {CliError} \cup {CliOk(d) : d \in ListDicts},
     rest |-> {RestError} \cup {RestOk(d) : d \in ListDicts},
     raw |-> {[err |-> FALSE]},
     errs |-> {[err |-> FALSE, shards |-> <<>>]}]
\* every command succeeds
OkIn ==
    [stats |-> {CliOk(d) : d \in OneBucketDicts},
     rest |-> {RestOk(d) : d \in OneBucketDicts},
     raw |-> {[err |-> FALSE]},
     errs |-> {[err |-> FALSE, shards |-> <<>>]}]

\* what MultisiteTopology.discover and the REST validation can yield
Topologies ==
    {tp \in [secondary_zones : {<<>>, <<"z1">>, <<"z1", "z2">>},
             rest : SUBSET SecondaryZones] :
        tp.rest \subseteq Range(tp.secondary_zones)}

\* What initialize reads for the REST setup: the three config values (a key
\* is TRUE when it is a non-empty string) and, for every zone of the
\* topology, whether its endpoints list is non-empty and what
\* RGWRestAPI.validate_access answers for its first endpoint.
RestConfigs ==
    [use_rest_for_bucket_stats : BOOLEAN, access_key : BOOLEAN,
     secret_key : BOOLEAN]
ZoneSetups ==
    [{MasterZone} \cup SecondaryZones -> [endpoints : BOOLEAN, ok : BOOLEAN]]

\* initialize, collector.py 887-907: the keys of self.zone_rest_apis
zone_rest_apis_any_endpoints(config, zones) ==
    IF config.use_rest_for_bucket_stats
       /\ config.access_key /\ config.secret_key
    THEN {z \in DOMAIN zones : zones[z].ok}
    ELSE {}
zone_rest_apis(config, zones) ==
    IF config.use_rest_for_bucket_stats
       /\ config.access_key /\ config.secret_key
    THEN {z \in DOMAIN zones : zones[z].endpoints /\ zones[z].ok}
    ELSE {}

\* two secondary zones under every config and every REST setup
RestTopologies ==
    {[secondary_zones |-> <<"z1", "z2">>,
      rest |-> zone_rest_apis(config, zones),
      config |-> config, zones |-> zones] :
        config \in RestConfigs, zones \in ZoneSetups}

RichTopologies == {tp \in Topologies : tp.rest \in {{}, Range(tp.secondary_zones)}}
\* one secondary zone, reached through the CLI or through REST
ThinTopologies == {tp \in Topologies : tp.secondary_zones = <<"z1">>}
OneTopology == {tp \in ThinTopologies : tp.rest = {"z1"}}

\* ------------------------------------------------------ collector threads
Th(t) == threads[t]
Coll(t) == collectors[threads[t].coll]
SetThread(t, r) == threads' = [threads EXCEPT ![t] = r]

\* where a thread goes when collect_once returns
EndPc(th) == IF th.kind = "run" THEN "wait" ELSE "dead"

InCycle(t) ==
    threads[t].pc \in {"master", "secondary", "snapshot", "bucket_sync",
                       "sync_status", "sync_errors"}

\* SyncCollector.collect_once, entry: ts = datetime.now(...), then the try
\* block.  A run thread gets here from its while test, a manual thread from
\* Thread.start().
BeginCycle(t) ==
    /\ threads' = [threads EXCEPT ![t] =
           [NoThread EXCEPT !.kind = Th(t).kind, !.coll = Th(t).coll,
                            !.pc = "master",
                            !.ts = clock]]
    /\ clock' = clock + 1
    /\ cycles' = cycles + 1

\* SyncCollector.run: while not self._stop.is_set(): self.collect_once()
RunCycle(t) ==
    /\ Th(t).kind = "run" /\ Th(t).pc = "loop"
    /\ ~Coll(t).stop
    /\ cycles < MaxCycles
    /\ BeginCycle(t)
    /\ UNCHANGED <<storeVars, appended, otherVars, apiVars>>

\* the first cycle of a run loop only
RunFirstCycle(t) ==
    /\ cycles = 0
    /\ RunCycle(t)

\* SyncCollector.run: the while test fails once stop() was called
RunExit(t) ==
    /\ Th(t).kind = "run" /\ Th(t).pc = "loop"
    /\ Coll(t).stop
    /\ SetThread(t, [Th(t) EXCEPT !.pc = "dead"])
    /\ UNCHANGED <<storeVars, appended, otherVars, apiVars, clock, cycles>>

\* SyncCollector.run: self._stop.wait(interval) returns, the event set or not
RunWait(t) ==
    /\ Th(t).kind = "run" /\ Th(t).pc = "wait"
    /\ SetThread(t, [NoThread EXCEPT !.kind = "run", !.coll = Th(t).coll,
                                     !.pc = "loop"])
    /\ UNCHANGED <<storeVars, appended, otherVars, apiVars, clock, cycles>>

\* the thread of trigger_collection starts collect_once
ManualCycle(t) ==
    /\ Th(t).kind = "manual" /\ Th(t).pc = "start"
    /\ BeginCycle(t)
    /\ UNCHANGED <<storeVars, appended, otherVars, apiVars>>

\* _collect_bucket_stats after the fetches (collector.py 1033-1038): return
\* when the primary gave nothing, else loop over primary_stats
AfterFetchAbort(th, zs) ==
    IF zs[MasterZone] = EmptyDict
    THEN [th EXCEPT !.pc = EndPc(th), !.zone_stats = EmptyDict]
    ELSE [th EXCEPT !.pc = "snapshot", !.zone_stats = zs,
                    !.keys = KeysSeq(zs[MasterZone]), !.i = 1]
AfterFetch(th, zs) ==
    IF zs[MasterZone] = EmptyDict
    THEN [th EXCEPT !.pc = "sync_status", !.zone_stats = EmptyDict]
    ELSE [th EXCEPT !.pc = "snapshot", !.zone_stats = zs,
                    !.keys = KeysSeq(zs[MasterZone]), !.i = 1]

\* an exception inside the try block of collect_once: caught at
\* collector.py 948-949, logged, and collect_once returns
RaisedKillsThread(th) ==
    [th EXCEPT !.pc = "dead", !.raised = TRUE, !.zone_stats = EmptyDict]
Raised(th) ==
    [th EXCEPT !.pc = EndPc(th), !.raised = TRUE, !.zone_stats = EmptyDict]

\* _collect_bucket_stats, collector.py 998-1008.  On a collector whose
\* initialize() raised, self.topology / self._secondary_data_available are
\* unset and line 998/999 raises AttributeError.
CollectorReadyAlways(c) == TRUE
CollectorReady(c) == c.initialized

\* the bucket stats request made for a zone: _get_bucket_stats_cli runs
\* "bucket stats" with --rgw-zone <zone_name> when it is given a zone name,
\* _get_bucket_stats_rest asks the client registered for the zone
CliFetch(zone, zone_name) ==
    [zone |-> zone, method |-> "cli", rgw_zone |-> zone_name]
RestFetch(zone) ==
    [zone |-> zone, method |-> "rest", rgw_zone |-> None]

FetchMaster(t, In) ==
    /\ Th(t).pc = "master"
    /\ IF ~CollectorReady(Coll(t))
       THEN SetThread(t, Raised([Th(t) EXCEPT !.ran = @ \cup {"bucket_stats"}]))
       ELSE \E result \in In.stats :
              LET zs == (MasterZone :> _get_bucket_stats_cli(result))
                  th == [Th(t) EXCEPT
                            !.ran = @ \cup {"bucket_stats"},
                            !.via = Append(@, CliFetch(MasterZone, None)),
                            !.failed = IF result.err
                                       THEN @ \cup {"bucket_stats"} ELSE @]
              IN  SetThread(t,
                     IF Coll(t).secondary_zones = <<>>
                     THEN AfterFetch(th, zs)
                     ELSE [th EXCEPT !.pc = "secondary", !.zone_stats = zs,
                                     !.i = 1])
    /\ UNCHANGED <<storeVars, appended, otherVars, apiVars, clock, cycles>>

\* one iteration of the loop over secondary_zones, collector.py 1013-1025:
\* zone_stats[zn] = ...; if zone_stats[zn]: zones_with_data.append(zn)
SecondaryFetched(th, secs, d, returned_data) ==
    LET zn == secs[th.i]
        zs == [z \in DOMAIN th.zone_stats \cup {zn} |->
                  IF z = zn THEN d ELSE th.zone_stats[z]]
        th2 == [th EXCEPT
                   !.zones_with_data = IF d # EmptyDict THEN Append(@, zn) ELSE @,
                   !.got = IF returned_data THEN @ \cup {zn} ELSE @]
    IN  IF th.i = Len(secs)
        THEN AfterFetch(th2, zs)
        ELSE [th2 EXCEPT !.zone_stats = zs, !.i = @ + 1]

FetchSecondary(t, In) ==
    /\ Th(t).pc = "secondary"
    /\ LET secs == Coll(t).secondary_zones
           zn == secs[Th(t).i]
           th == [Th(t) EXCEPT !.via = Append(@,
                     IF zn \in Coll(t).rest THEN RestFetch(zn)
                     ELSE CliFetch(zn, Some(zn)))]
       IN  IF secs[th.i] \in Coll(t).rest
           THEN \E result \in In.rest :
                   SetThread(t,
                      IF result.kind = "raise"
                      THEN Raised(th)
                      ELSE SecondaryFetched(th, secs,
                               _get_bucket_stats_rest(result),
                               result.kind = "ok" /\ result.data # EmptyDict))
           ELSE \E result \in In.stats :
                   SetThread(t,
                      SecondaryFetched(
                          [th EXCEPT !.failed = IF result.err
                                                THEN @ \cup {secs[th.i]} ELSE @],
                          secs, _get_bucket_stats_cli(result),
                          ~result.err /\ result.data # EmptyDict))
    /\ UNCHANGED <<storeVars, appended, otherVars, apiVars, clock, cycles>>

\* one iteration of the loop over primary_stats, collector.py 1038-1084
\* has_comparison_data = len(zones_with_data) > 0
StoreSnapshot(t) ==
    /\ Th(t).pc = "snapshot"
    /\ LET th == Th(t)
           b == th.keys[th.i]
       IN  /\ add_bucket_snapshot(b,
                 Snapshot(Coll(t).secondary_zones, th.zone_stats,
                          Len(th.zones_with_data) > 0, b, th.ts))
           /\ SetThread(t, IF th.i = Len(th.keys)
                           THEN [th EXCEPT !.pc = "bucket_sync", !.i = 1]
                           ELSE [th EXCEPT !.i = @ + 1])
    /\ UNCHANGED <<global_history, bucket_errors, global_errors, appended,
                   otherVars,
                   apiVars, clock, cycles>>

\* history[-1]["sync_status"] = parsed, collector.py 1122-1124
Attach(h, parsed) ==
    IF h = <<>> THEN h ELSE [h EXCEPT ![Len(h)].sync_status = Some(parsed)]

\* The snapshot dicts of a returned view are the store's own objects
\* (get_dashboard_data copies each history list, not its elements), so the
\* assignment of line 1124 shows in every view that holds the snapshot.
\* A snapshot object is identified by its bucket and its cycle's timestamp.
AttachInView(v, b, h, parsed) ==
    IF h = <<>> \/ ~v.taken THEN v
    ELSE [v EXCEPT !.buckets[b] =
            [k \in DOMAIN @ |->
                IF @[k].timestamp = h[Len(h)].timestamp
                THEN [@[k] EXCEPT !.sync_status = Some(parsed)]
                ELSE @[k]]]

\* _collect_bucket_sync_status for the next bucket of primary_stats
BucketSyncStatus(t, In) ==
    /\ Th(t).pc = "bucket_sync"
    /\ LET th == Th(t)
           b == th.keys[th.i]
       IN  \E result \in In.raw :
             /\ bucket_history' =
                   IF result.err THEN bucket_history
                   ELSE [bucket_history EXCEPT
                            ![b] = Attach(@, [collected_ts |-> th.ts])]
             /\ view' =
                   IF result.err THEN view
                   ELSE AttachInView(view, b, bucket_history[b],
                                     [collected_ts |-> th.ts])
             /\ SetThread(t,
                   [th EXCEPT
                       !.attempted = @ \cup {b},
                       !.failed = IF result.err THEN @ \cup {b} ELSE @,
                       !.pc = IF th.i = Len(th.keys) THEN "sync_status" ELSE @,
                       !.zone_stats = IF th.i = Len(th.keys) THEN EmptyDict ELSE @,
                       !.i = @ + 1])
    /\ UNCHANGED <<global_history, bucket_errors, global_errors, appended,
                   sideVars, apiVars, clock, cycles>>

\* SyncCollector._collect_sync_status
SyncStatus(t, In) ==
    /\ Th(t).pc = "sync_status"
    /\ \E result \in In.raw :
         /\ add_global_snapshot(
               [timestamp |-> Th(t).ts,
                status |-> IF result.err THEN "error" ELSE "ok"])
         /\ SetThread(t,
               [Th(t) EXCEPT
                   !.ran = @ \cup {"sync_status"},
                   !.failed = IF result.err THEN @ \cup {"sync_status"} ELSE @,
                   !.pc = "sync_errors"])
    /\ UNCHANGED <<bucket_history, bucket_errors, global_errors, appended,
                   otherVars,
                   apiVars, clock, cycles>>

\* SyncCollector._collect_sync_errors: set_global_errors([]) on a failed
\* command; else set_global_errors(global_errors) and set_bucket_errors for
\* each key of the local bucket_errors dict.  An exception while the local
\* lists are built leaves the store as it was.
SyncErrors(t, In) ==
    /\ Th(t).pc = "sync_errors"
    /\ \E result \in In.errs :
         LET errors == Flatten(result.shards)
             th == [Th(t) EXCEPT !.ran = @ \cup {"sync_errors"},
                                 !.errs = Some(result)]
         IN  IF ~result.err /\ ErrorsRaise(result.shards)
             THEN /\ SetThread(t, Raised(th))
                  /\ UNCHANGED <<global_errors, bucket_errors>>
             ELSE /\ global_errors' = IF result.err THEN <<>> ELSE errors
                  /\ bucket_errors' =
                        IF result.err THEN bucket_errors
                        ELSE SetBucketErrors(bucket_errors, errors)
                  /\ SetThread(t,
                        [th EXCEPT
                            !.failed = IF result.err
                                       THEN @ \cup {"sync_errors"} ELSE @,
                            !.pc = EndPc(th)])
    /\ UNCHANGED <<bucket_history, global_history, appended, otherVars,
                   apiVars, clock, cycles>>

\* the steps of collect_once after its entry
CycleStep(t, In) ==
    \/ FetchMaster(t, In)
    \/ FetchSecondary(t, In)
    \/ StoreSnapshot(t)
    \/ BucketSyncStatus(t, In)
    \/ SyncStatus(t, In)
    \/ SyncErrors(t, In)

\* SyncDataStore.get_dashboard_data, the "buckets" part: under the lock,
\* "history": list(history) for every bucket
GetDashboardData ==
    /\ ~view.taken
    /\ view' = [taken |-> TRUE, returned |-> bucket_history,
                buckets |-> bucket_history]
    /\ UNCHANGED <<storeVars, appended, sideVars, apiVars, threads, clock,
                   cycles>>

\* api_server.bucket_list: one entry per key of data["buckets"], that is per
\* bucket that has a history
ListEntry(name) ==
    LET history == bucket_history[name]
        latest == history[Len(history)]
    IN  [name |-> name,
         sync_progress_pct |-> latest.sync_progress_pct,
         delta_objects |-> latest.delta_objects,
         delta_size |-> latest.delta_size,
         error_count |-> Len(bucket_errors[name]),
         snapshot_count |-> Len(history),
         last_update |-> latest.timestamp]
Listed == {b \in Buckets : bucket_history[b] # <<>>}

\* buckets.sort(key=lambda b: b["sync_progress_pct"]): with two entries or
\* more every key is compared with another one, and < between None and a
\* number, or between None and None, raises TypeError
SortRaises ==
    /\ Cardinality(Listed) >= 2
    /\ \E b \in Listed : ListEntry(b).sync_progress_pct = None
\* the orders the sort can leave the entries in (entries of equal progress
\* keep the order of the dict, which is the order of their first snapshots)
SortedLists ==
    {l \in [1..Cardinality(Listed) -> {ListEntry(b) : b \in Listed}] :
        /\ \A b \in Listed : \E k \in DOMAIN l : l[k].name = b
        /\ \A i, j \in DOMAIN l :
              i < j /\ l[i].sync_progress_pct # None
                    /\ l[j].sync_progress_pct # None
                => l[i].sync_progress_pct[1] <= l[j].sync_progress_pct[1]}

\* GET /api/buckets: the JSON list, or the 500 of an unhandled exception
BucketList ==
    /\ listing = None
    /\ \E l \in SortedLists :
         listing' = Some(IF SortRaises
                         THEN [status |-> 500, buckets |-> <<>>]
                         ELSE [status |-> 200, buckets |-> l])
    /\ UNCHANGED <<storeVars, appended, view, disc, agent, zoneVars, parse,
                   apiVars, threads, clock, cycles>>

\* ------------------------------------------------------------- api_server
\* collector = SyncCollector(...); collector.initialize(); thread start.
\* The global is assigned before initialize() runs, so a failed initialize
\* leaves it pointing at a collector that never got its topology.
NewCollector(c, tp, ok) ==
    /\ collector' = c
    /\ collectors' = [collectors EXCEPT ![c] =
           IF ok
           THEN Initialized(tp)
           ELSE NoCollector]
    /\ collector_thread' = IF ok THEN c ELSE collector_thread
    /\ threads' = IF ok
                  THEN [threads EXCEPT ![c] =
                           [NoThread EXCEPT !.kind = "run", !.coll = c,
                                            !.pc = "loop"]]
                  ELSE threads

\* start_collector_from_config, called once before app.run
StartCollectorFromConfig(Tps) ==
    /\ api.pc = "boot"
    /\ \E tp \in Tps, ok \in BOOLEAN : NewCollector(1, tp, ok)
    /\ api' = [api EXCEPT !.pc = "idle"]
    /\ UNCHANGED <<storeVars, appended, otherVars, clock, cycles>>

\* update_config, api_server.py 439-443: collector.stop(), then the join
UpdateConfigStop ==
    /\ api.pc = "idle"
    /\ api.restarts < MaxRestarts
    /\ collectors' = IF collector # 0
                     THEN [collectors EXCEPT ![collector].stop = TRUE]
                     ELSE collectors
    /\ api' = [api EXCEPT !.pc = "join"]
    /\ UNCHANGED <<storeVars, appended, otherVars, collector, collector_thread, threads,
                   clock, cycles>>

\* collector_thread.join(timeout=10) returns: there was nothing to join, the
\* thread has ended, or ten seconds passed with the thread still inside a
\* cycle (a single command may run for up to 60 s).  A thread in its wait or
\* at its while test ends at once when the event is set.
JoinReturns ==
    IF collector = 0 \/ collector_thread = 0 THEN TRUE
    ELSE threads[collector_thread].pc = "dead" \/ InCycle(collector_thread)

\* update_config, api_server.py 443-470: after the join, the new collector
UpdateConfigStart(Tps) ==
    /\ api.pc = "join"
    /\ JoinReturns
    /\ \E tp \in Tps, ok \in BOOLEAN : NewCollector(api.restarts + 2, tp, ok)
    /\ api' = [api EXCEPT !.pc = "idle", !.restarts = @ + 1]
    /\ UNCHANGED <<storeVars, appended, otherVars, clock, cycles>>

\* trigger_collection: if collector: Thread(target=collector.collect_once)
TriggerGuardSingleFlight ==
    /\ collector # 0
    /\ \A t \in Tids : ~InCycle(t)
TriggerGuard == collector # 0

TriggerCollection ==
    /\ TriggerGuard
    /\ \E t \in ManualTids :
         /\ threads[t].kind = "none"
         /\ \A u \in ManualTids : u < t => threads[u].kind # "none"
         /\ threads' = [threads EXCEPT ![t] =
               [NoThread EXCEPT !.kind = "manual", !.coll = collector,
                                !.pc = "start"]]
    /\ UNCHANGED <<storeVars, appended, otherVars, apiVars, clock, cycles>>

\* ------------------------------------------------------ initialization
\* validate_ceph_access: the binary is missing, the probe times out, exits
\* non-zero with a connection error, with "no realm" or with another
\* message, or exits zero
ProbeOutcomes ==
    {"ok", "no_binary", "timeout", "cannot_connect", "no_realm", "other_error"}
ProbeIsFatal(outcome) == outcome \notin {"ok", "no_realm"}

\* a zone of a zonegroup JSON: its id is None when the key is absent
ZoneJson(name, id) == [name |-> name, id |-> id]
ZonegroupJson(name, master_zone, zones) ==
    [name |-> name, master_zone |-> master_zone, zones |-> zones]

\* MultisiteTopology._parse_zonegroup: one dict appended per zone,
\* "is_master": zone.get("id") == master_zone_id
RECURSIVE ParseZones(_, _, _)
ParseZones(zg, k, acc) ==
    IF k > Len(zg.zones) THEN acc
    ELSE ParseZones(zg, k + 1,
            Append(acc, [name |-> zg.zones[k].name,
                         id |-> zg.zones[k].id,
                         is_master |-> zg.zones[k].id = Some(zg.master_zone),
                         zonegroup |-> zg.name]))
_parse_zonegroup(d, zg) ==
    [d EXCEPT !.zonegroups = Append(@, zg.name),
              !.zones = ParseZones(zg, 1, @)]

\* MultisiteTopology._parse_period: every zonegroup of the period map
RECURSIVE _parse_period(_, _)
_parse_period(d, zonegroups) ==
    IF zonegroups = <<>> THEN d
    ELSE _parse_period(_parse_zonegroup(d, Head(zonegroups)), Tail(zonegroups))

\* indices of zones in list order
Indices(zones, P(_)) ==
    SelectSeq([k \in 1..Len(zones) |-> k], LAMBDA k : P(zones[k]))

\* discover, collector.py 699-706: master_zone = next(is_master, None),
\* secondary_zones = the zones that are not is_master; without a master
\* the first zone is marked and taken
Master(d) ==
    LET masters == Indices(d.zones, LAMBDA z : z.is_master)
    IN  IF masters = <<>> /\ d.zones # <<>>
        THEN [d EXCEPT !.pc = "done",
                       !.zones[1].is_master = TRUE,
                       !.master_zone = 1,
                       !.secondary_zones = [k \in 1..(Len(d.zones) - 1) |-> k + 1]]
        ELSE [d EXCEPT !.pc = "done",
                       !.master_zone = IF masters = <<>> THEN 0 ELSE masters[1],
                       !.secondary_zones =
                           Indices(d.zones, LAMBDA z : ~z.is_master)]

\* the command log: the command, whether it succeeded, and for realm list
\* the realms it named
Issued(d, cmd, ok, realms) ==
    [d EXCEPT !.cmds = Append(@, [cmd |-> cmd, ok |-> ok, realms |-> realms])]

\* discover, collector.py 663-665: realm list is tried when realm get failed
AfterRealmGetAlwaysList(ok) == "realm_list"
AfterRealmGet(ok) == IF ok THEN "period_get" ELSE "realm_list"

\* SyncCollector.initialize up to validate_ceph_access
ValidateCephAccess ==
    /\ disc.pc = "none"
    /\ \E outcome \in ProbeOutcomes :
         disc' = [disc EXCEPT !.probe = outcome,
                              !.pc = IF ProbeIsFatal(outcome)
                                     THEN "fatal_probe" ELSE "realm_get"]
    /\ UNCHANGED <<storeVars, appended, view, agent, zoneVars, parse, listing, apiVars, threads, clock,
                   cycles>>

\* discover: self.realm = run_cli_json(["realm", "get"])
RealmGet ==
    /\ disc.pc = "realm_get"
    /\ \E ok \in BOOLEAN :
         disc' = [Issued(disc, "realm get", ok, <<>>) EXCEPT
                     !.pc = AfterRealmGet(ok)]
    /\ UNCHANGED <<storeVars, appended, view, agent, zoneVars, parse, listing, apiVars, threads, clock,
                   cycles>>

RealmLists == {<<>>, <<"r1">>, <<"r1", "r2">>, <<"r2", "r1">>}

\* discover: realm_list = run_cli_json(["realm", "list"]); the realms it
\* names, if it succeeds
RealmList ==
    /\ disc.pc = "realm_list"
    /\ \E ok \in BOOLEAN, realms \in RealmLists :
         /\ ~ok => realms = <<>>
         /\ disc' = [Issued(disc, "realm list", ok, realms) EXCEPT
                        !.pc = IF ok /\ realms # <<>>
                               THEN "realm_get_" \o realms[1]
                               ELSE "period_get"]
    /\ UNCHANGED <<storeVars, appended, view, agent, zoneVars, parse, listing, apiVars, threads, clock,
                   cycles>>

\* discover: run_cli_json(["realm", "get", "--rgw-realm", realms[0]])
RealmGetListed ==
    /\ disc.pc \in {"realm_get_r1", "realm_get_r2"}
    /\ \E ok \in BOOLEAN :
         disc' = [Issued(disc, disc.pc, ok, <<>>) EXCEPT !.pc = "period_get"]
    /\ UNCHANGED <<storeVars, appended, view, agent, zoneVars, parse, listing, apiVars, threads, clock,
                   cycles>>

\* discover: self.period = run_cli_json(["period", "get"]), parsed when
\* the command succeeded
PeriodGet(Periods) ==
    /\ disc.pc = "period_get"
    /\ \/ disc' = [Issued(disc, "period get", FALSE, <<>>) EXCEPT
                       !.pc = "zonegroup_get"]
       \/ \E period \in Periods :
             disc' = Master(_parse_period(Issued(disc, "period get", TRUE, <<>>),
                                          period))
    /\ UNCHANGED <<storeVars, appended, view, agent, zoneVars, parse, listing, apiVars, threads, clock,
                   cycles>>

\* discover: zg = run_cli_json(["zonegroup", "get"]); CephAccessError when
\* it fails too
ZonegroupGet(Zonegroups) ==
    /\ disc.pc = "zonegroup_get"
    /\ \/ disc' = [Issued(disc, "zonegroup get", FALSE, <<>>) EXCEPT
                       !.pc = "fatal_discover"]
       \/ \E zg \in Zonegroups :
             disc' = Master(_parse_zonegroup(
                               Issued(disc, "zonegroup get", TRUE, <<>>), zg))
    /\ UNCHANGED <<storeVars, appended, view, agent, zoneVars, parse, listing, apiVars, threads, clock,
                   cycles>>

\* zonegroup g of a period: up to MaxZones zones named after their place,
\* each with its own id or none; master_zone is the first zone's id, an
\* id no zone has, or absent ("")
ZoneName(g, k) == "zone" \o ToString(g) \o ToString(k)
ZoneId(g, k) == "id" \o ToString(g) \o ToString(k)
ZonegroupName(g) == "zg" \o ToString(g)
ZoneLists(g) ==
    UNION {{[k \in 1..n |-> ZoneJson(ZoneName(g, k),
                                      IF k \in S THEN Some(ZoneId(g, k)) ELSE None)] :
               S \in SUBSET (1..n)} : n \in 0..MaxZones}
ZonegroupsAt(g) ==
    {ZonegroupJson(ZonegroupName(g), m, zones) :
        m \in {ZoneId(g, 1), ZoneId(g, 0), ""}, zones \in ZoneLists(g)}
AllPeriods ==
    UNION {{p \in [1..n -> UNION {ZonegroupsAt(g) : g \in 1..n}] :
               \A g \in 1..n : p[g] \in ZonegroupsAt(g)} :
              n \in 0..MaxZonegroups}

\* ---------------------------------------------------------- zone agent
\* the warning threshold of zone_agent.main
WarnAfter == 5

\* what urlopen does with the request: a response with a 2xx status, an
\* HTTPError for any other status, a URLError, or another exception
PushOutcomes ==
    {"http_200", "http_201", "http_204", "http_404", "http_500",
     "url_error", "exception"}
\* push_to_primary: True only from the status == 200 branch
PushAny2xx(outcome) == outcome \in {"http_200", "http_201", "http_204"}
push_to_primary(outcome) == outcome = "http_200"

\* main, after the push of a cycle: on to the sleep, whatever it returned
AfterPushRetry(success) == IF success THEN "sleep" ELSE "push"
AfterPush(success) == "sleep"

\* main up to its loop (daemon mode: neither --once nor --dry-run)
AgentStart ==
    /\ agent.pc = "none"
    /\ agent' = [agent EXCEPT !.pc = "loop"]
    /\ UNCHANGED notAgent

\* handle_signal: running = False
AgentSignal ==
    /\ agent.pc # "none" /\ agent.running
    /\ agent' = [agent EXCEPT !.running = FALSE]
    /\ UNCHANGED notAgent

\* while running: the next cycle begins, or the loop ends
AgentLoop ==
    /\ agent.pc = "loop"
    /\ agent.running => agent.cycle < MaxAgentCycles
    /\ agent' = IF agent.running
                THEN [agent EXCEPT !.pc = "collect", !.cycle = @ + 1,
                                   !.push = "none", !.success = FALSE,
                                   !.warned = FALSE]
                ELSE [agent EXCEPT !.pc = "stopped"]
    /\ UNCHANGED notAgent

\* payload = collect_all(...): returns a new payload, or raises into the
\* except clause of the loop (consecutive_failures += 1, nothing logged
\* about pushes)
AgentCollect ==
    /\ agent.pc = "collect"
    /\ \E raises \in BOOLEAN :
         agent' = IF raises
                  THEN [agent EXCEPT !.pc = "sleep",
                                     !.consecutive_failures = @ + 1]
                  ELSE [agent EXCEPT !.pc = "push", !.payload = agent.cycle]
    /\ UNCHANGED notAgent

\* success = push_to_primary(primary_url, payload) and the counter update
AgentPush ==
    /\ agent.pc = "push"
    /\ \E outcome \in PushOutcomes :
         LET success == push_to_primary(outcome)
             failures == IF success THEN 0 ELSE agent.consecutive_failures + 1
         IN  agent' = [agent EXCEPT
                 !.pushes = Append(@, agent.payload),
                 !.push = outcome,
                 !.success = success,
                 !.consecutive_failures = failures,
                 !.warned = ~success /\ failures >= WarnAfter,
                 !.failed_in_row = IF success THEN 0 ELSE @ + 1,
                 !.pc = AfterPush(success)]
    /\ UNCHANGED notAgent

\* for _ in range(interval): if not running: break; time.sleep(1)
\* the test of one round: into time.sleep(1), or out of the for loop
AgentSleepIgnoresSignal ==
    /\ agent.pc = "sleep"
    /\ agent' = IF agent.slept < interval
                THEN [agent EXCEPT !.pc = "sleeping"]
                ELSE [agent EXCEPT !.pc = "loop", !.slept = 0]
    /\ UNCHANGED notAgent
AgentSleep ==
    /\ agent.pc = "sleep"
    /\ agent' = IF agent.running /\ agent.slept < interval
                THEN [agent EXCEPT !.pc = "sleeping"]
                ELSE [agent EXCEPT !.pc = "loop", !.slept = 0]
    /\ UNCHANGED notAgent

\* time.sleep(1) returns; a signal handled meanwhile does not cut it short
AgentSleeping ==
    /\ agent.pc = "sleeping"
    /\ agent' = [agent EXCEPT !.pc = "sleep", !.slept = @ + 1]
    /\ UNCHANGED notAgent

\* ------------------------------------------------------- specifications
\* The server process: startup, reconfiguration, the run loops and manual
\* cycles, every command succeeding.
Init ==
    /\ EmptyStore
    /\ collector = 0
    /\ collector_thread = 0
    /\ collectors = [c \in Cids |-> NoCollector]
    /\ threads = [t \in Tids |-> NoThread]
    /\ OthersIdle
    /\ clock = 1
    /\ cycles = 0
    /\ api = [pc |-> "boot", restarts |-> 0]

RunStep(t) ==
    \/ RunCycle(t)
    \/ RunExit(t)
    \/ RunWait(t)

Next ==
    \/ StartCollectorFromConfig(OneTopology)
    \/ UpdateConfigStop
    \/ UpdateConfigStart(OneTopology)
    \/ TriggerCollection
    \/ \E t \in Tids : RunStep(t)
    \/ \E t \in Tids : ManualCycle(t)
    \/ \E t \in Tids : CycleStep(t, OkIn)

Spec == Init /\ [][Next]_vars

\* One collection cycle of a started collector over every topology and
\* every bucket stats result within the bounds.
InitCycle ==
    /\ EmptyStore
    /\ OthersIdle
    /\ clock = 1
    /\ cycles = 0
    /\ api = [pc |-> "idle", restarts |-> 0]
    /\ collector = 1
    /\ collector_thread = 1
    /\ \E tp \in RichTopologies :
         collectors = [c \in Cids |->
            IF c = 1
            THEN Initialized(tp)
            ELSE NoCollector]
    /\ threads = [t \in Tids |->
          IF t = 1
          THEN [NoThread EXCEPT !.kind = "run", !.coll = 1, !.pc = "loop"]
          ELSE NoThread]

NextCycle ==
    \/ RunFirstCycle(1)
    \/ RunWait(1)
    \/ CycleStep(1, RichIn)

SpecCycle == InitCycle /\ [][NextCycle]_vars

\* The run loops with every command free to fail: startup, stop() and
\* restart through update_config, no manual cycles.
NextRun ==
    \/ StartCollectorFromConfig(ThinTopologies)
    \/ UpdateConfigStop
    \/ UpdateConfigStart(ThinTopologies)
    \/ \E t \in RunTids : RunStep(t)
    \/ \E t \in RunTids : CycleStep(t, FailIn)

SpecRun == Init /\ [][NextRun]_vars

\* One run loop from startup until stop(), every command free to fail, with
\* the scheduling the code relies on: a started thread keeps being run,
\* Event.wait(interval) returns after the interval, and every external
\* command and HTTP request returns or times out.
NextLoop ==
    \/ StartCollectorFromConfig(ThinTopologies)
    \/ UpdateConfigStop
    \/ RunStep(1)
    \/ CycleStep(1, FailIn)

Fairness ==
    /\ WF_vars(RunStep(1))
    /\ WF_vars(CycleStep(1, FailIn))

SpecLoop == Init /\ [][NextLoop]_vars /\ Fairness

\* A dashboard request beside the run loop: one get_dashboard_data call at
\* any moment of the collector's cycles, every command free to fail.
NextDashboard ==
    \/ StartCollectorFromConfig(ThinTopologies)
    \/ RunCycle(1)
    \/ RunWait(1)
    \/ CycleStep(1, FailIn)
    \/ GetDashboardData

SpecDashboard == Init /\ [][NextDashboard]_vars

\* The sync-error step of successive cycles over every sync error list
\* within the bounds; the stats and status commands fail, so that a cycle
\* is its sync-error step and little else.
ErrIn ==
    [stats |-> {CliError}, rest |-> {RestError}, raw |-> {[err |-> TRUE]},
     errs |-> RichErrorLists]

NextErrors ==
    \/ StartCollectorFromConfig(OneTopology)
    \/ RunCycle(1)
    \/ RunWait(1)
    \/ FetchMaster(1, ErrIn)
    \/ FetchSecondary(1, ErrIn)
    \/ SyncStatus(1, ErrIn)
    \/ SyncErrors(1, ErrIn)

SpecErrors == Init /\ [][NextErrors]_vars

\* SyncCollector.initialize on a new collector: the pre-flight probe and
\* topology discovery over every probe outcome, every command outcome and
\* every period within the bounds.
NextDiscover ==
    \/ ValidateCephAccess
    \/ RealmGet
    \/ RealmList
    \/ RealmGetListed
    \/ PeriodGet(AllPeriods)
    \/ ZonegroupGet(ZonegroupsAt(1))

SpecDiscover == Init /\ [][NextDiscover]_vars

\* The run loop of a collector initialized under any REST setup, the bucket
\* stats of every zone free to fail.
NextRest ==
    \/ StartCollectorFromConfig(RestTopologies)
    \/ RunCycle(1)
    \/ RunWait(1)
    \/ CycleStep(1, PathIn)

SpecRest == Init /\ [][NextRest]_vars

\* The zone agent process in daemon mode, every collection free to raise
\* and every push free to fail, with a shutdown signal at any moment.
NextAgent ==
    \/ AgentStart
    \/ AgentSignal
    \/ AgentLoop
    \/ AgentCollect
    \/ AgentPush
    \/ AgentSleep
    \/ AgentSleeping

SpecAgent == Init /\ [][NextAgent]_vars

\* The same process, its main thread running on: every call of main
\* returns and the statement after it is executed.
AgentMain ==
    \/ AgentLoop
    \/ AgentCollect
    \/ AgentPush
    \/ AgentSleep
    \/ AgentSleeping

SpecAgentFair == SpecAgent /\ WF_vars(AgentMain)

\* ------------------------------------------------- sync status text parsers
\* A line of "radosgw-admin sync status" output, as the parsers see it: what
\* each of their tests answers on the line.
\*   blank        not line.strip()
\*   indent8      line.startswith(' ' * 8) or line.startswith('\t')
\*   indent1      line.startswith(' ')
\*   keyword      line.strip().startswith(('full', 'incremental', 'metadata',
\*                                         'data', 'shard'))
\*   meta_header  re.search(r'metadata sync', line, re.IGNORECASE)
\*   source       the group of r'data sync source:\s*\S+\s+\((.+?)\)'
\*   head, name   which of ^realm, ^zonegroup, ^zone matches, and its group
\*   caught_up, syncing, sync_colon, behind
\*                the substring is in line.strip().lower()
\*   full, incr   the groups of r'full sync:\s*(\d+)/(\d+)\s*shards?' and of
\*                r'incremental sync:\s*(\d+)/(\d+)\s*shards?'
RealmLine ==
    [text |-> "          realm 4a15 (test_realm)",
     blank |-> FALSE, indent8 |-> TRUE, indent1 |-> TRUE, keyword |-> FALSE,
     meta_header |-> FALSE, source |-> None,
     head |-> "realm", name |-> "test_realm",
     caught_up |-> FALSE, syncing |-> FALSE, sync_colon |-> FALSE, behind |-> FALSE,
     full |-> None, incr |-> None]
ZonegroupLine ==
    [text |-> "      zonegroup 4429 (default)",
     blank |-> FALSE, indent8 |-> FALSE, indent1 |-> TRUE, keyword |-> FALSE,
     meta_header |-> FALSE, source |-> None,
     head |-> "zonegroup", name |-> "default",
     caught_up |-> FALSE, syncing |-> FALSE, sync_colon |-> FALSE, behind |-> FALSE,
     full |-> None, incr |-> None]
ZoneLine ==
    [text |-> "           zone 15ce (test_zone)",
     blank |-> FALSE, indent8 |-> TRUE, indent1 |-> TRUE, keyword |-> FALSE,
     meta_header |-> FALSE, source |-> None,
     head |-> "zone", name |-> "test_zone",
     caught_up |-> FALSE, syncing |-> FALSE, sync_colon |-> FALSE, behind |-> FALSE,
     full |-> None, incr |-> None]
MetaHeaderLine ==
    [text |-> "  metadata sync syncing",
     blank |-> FALSE, indent8 |-> FALSE, indent1 |-> TRUE, keyword |-> TRUE,
     meta_header |-> TRUE, source |-> None,
     head |-> "", name |-> "",
     caught_up |-> FALSE, syncing |-> TRUE, sync_colon |-> FALSE, behind |-> FALSE,
     full |-> None, incr |-> None]
MetaFullLine ==
    [text |-> "                full sync: 0/64 shards",
     blank |-> FALSE, indent8 |-> TRUE, indent1 |-> TRUE, keyword |-> TRUE,
     meta_header |-> FALSE, source |-> None,
     head |-> "", name |-> "",
     caught_up |-> FALSE, syncing |-> FALSE, sync_colon |-> TRUE, behind |-> FALSE,
     full |-> Some(<<0, 64>>), incr |-> None]
MetaCaughtLine ==
    [text |-> "                metadata is caught up with master",
     blank |-> FALSE, indent8 |-> TRUE, indent1 |-> TRUE, keyword |-> TRUE,
     meta_header |-> FALSE, source |-> None,
     head |-> "", name |-> "",
     caught_up |-> TRUE, syncing |-> FALSE, sync_colon |-> FALSE, behind |-> FALSE,
     full |-> None, incr |-> None]
DataHeaderLine ==
    [text |-> "      data sync source: abc1 (zone2)",
     blank |-> FALSE, indent8 |-> FALSE, indent1 |-> TRUE, keyword |-> TRUE,
     meta_header |-> FALSE, source |-> Some("zone2"),
     head |-> "", name |-> "",
     caught_up |-> FALSE, syncing |-> FALSE, sync_colon |-> FALSE, behind |-> FALSE,
     full |-> None, incr |-> None]
DataSyncingLine ==
    [text |-> "                        syncing",
     blank |-> FALSE, indent8 |-> TRUE, indent1 |-> TRUE, keyword |-> FALSE,
     meta_header |-> FALSE, source |-> None,
     head |-> "", name |-> "",
     caught_up |-> FALSE, syncing |-> TRUE, sync_colon |-> FALSE, behind |-> FALSE,
     full |-> None, incr |-> None]
DataIncrLine ==
    [text |-> "                        incremental sync: 127/128 shards",
     blank |-> FALSE, indent8 |-> TRUE, indent1 |-> TRUE, keyword |-> TRUE,
     meta_header |-> FALSE, source |-> None,
     head |-> "", name |-> "",
     caught_up |-> FALSE, syncing |-> FALSE, sync_colon |-> TRUE, behind |-> FALSE,
     full |-> None, incr |-> Some(<<127, 128>>)]
DataCaughtLine ==
    [text |-> "                        data is caught up with source",
     blank |-> FALSE, indent8 |-> TRUE, indent1 |-> TRUE, keyword |-> TRUE,
     meta_header |-> FALSE, source |-> None,
     head |-> "", name |-> "",
     caught_up |-> TRUE, syncing |-> FALSE, sync_colon |-> FALSE, behind |-> FALSE,
     full |-> None, incr |-> None]
DataBehindLine ==
    [text |-> "                        data is behind on 1 shards",
     blank |-> FALSE, indent8 |-> TRUE, indent1 |-> TRUE, keyword |-> TRUE,
     meta_header |-> FALSE, source |-> None,
     head |-> "", name |-> "",
     caught_up |-> FALSE, syncing |-> FALSE, sync_colon |-> FALSE, behind |-> TRUE,
     full |-> None, incr |-> None]
PlainLine ==
    [text |-> "current time 2024-01-01T00:00:00Z",
     blank |-> FALSE, indent8 |-> FALSE, indent1 |-> FALSE, keyword |-> FALSE,
     meta_header |-> FALSE, source |-> None,
     head |-> "", name |-> "",
     caught_up |-> FALSE, syncing |-> FALSE, sync_colon |-> FALSE, behind |-> FALSE,
     full |-> None, incr |-> None]
StatusLines ==
    {RealmLine, ZonegroupLine, ZoneLine, MetaHeaderLine,
     MetaFullLine, MetaCaughtLine, DataHeaderLine, DataSyncingLine,
     DataIncrLine, DataCaughtLine, DataBehindLine, PlainLine}

\* every sync status text of up to MaxLines of these lines
Texts == UNION {[1..n -> StatusLines] : n \in 0..MaxLines}

\* result = {"realm": "", "zonegroup": "", "zone": "", ...}, then the loop
\* over the lines with its three re.match tests
RECURSIVE ParseHeaders(_, _, _)
ParseHeaders(text, i, result) ==
    IF i > Len(text) THEN result
    ELSE ParseHeaders(text, i + 1,
            IF text[i].head = "realm"
            THEN [result EXCEPT !.realm = text[i].name]
            ELSE IF text[i].head = "zonegroup"
            THEN [result EXCEPT !.zonegroup = text[i].name]
            ELSE IF text[i].head = "zone"
            THEN [result EXCEPT !.zone = text[i].name]
            ELSE result)

\* collector._extract_block(text, r'metadata sync'), from line i on
RECURSIVE ExtractBlock(_, _, _, _)
ExtractBlock(text, i, capturing, block_lines) ==
    IF i > Len(text) THEN block_lines
    ELSE LET line == text[i]
         IN  IF line.meta_header
             THEN ExtractBlock(text, i + 1, TRUE, Append(block_lines, line))
             ELSE IF ~capturing
             THEN ExtractBlock(text, i + 1, FALSE, block_lines)
             ELSE IF /\ ~line.blank /\ ~line.indent8
                     /\ block_lines # <<>> /\ ~line.keyword
             THEN block_lines
             ELSE ExtractBlock(text, i + 1, TRUE, Append(block_lines, line))
_extract_block(text) == ExtractBlock(text, 1, FALSE, <<>>)

\* collector._extract_data_sync_blocks; current_zone is None or a name
RECURSIVE ExtractDataSyncBlocks(_, _, _, _, _)
ExtractDataSyncBlocks(text, i, current_zone, current_lines, blocks) ==
    LET saved == Append(blocks, [source_zone |-> current_zone[1],
                                 lines |-> current_lines])
    IN  IF i > Len(text)
        THEN IF current_zone # None THEN saved ELSE blocks
        ELSE LET line == text[i]
             IN  IF line.source # None
                 THEN ExtractDataSyncBlocks(text, i + 1, line.source, <<line>>,
                         IF current_zone # None THEN saved ELSE blocks)
                 ELSE IF current_zone = None
                 THEN ExtractDataSyncBlocks(text, i + 1, None, <<>>, blocks)
                 ELSE IF ~line.blank /\ ~line.indent1
                 THEN ExtractDataSyncBlocks(text, i + 1, None, <<>>, saved)
                 ELSE ExtractDataSyncBlocks(text, i + 1, current_zone,
                         Append(current_lines, line), blocks)
_extract_data_sync_blocks(text) ==
    ExtractDataSyncBlocks(text, 1, None, <<>>, <<>>)

\* the result dict of _parse_sync_block before its loop (behind_shards and
\* raw, which the collector adds, are left out)
UnknownBlock ==
    [status |-> "unknown", full_sync_done |-> 0, full_sync_total |-> 0,
     incremental_sync_done |-> 0, incremental_sync_total |-> 0]

\* the shard counts of one line, collector.py 355-365 and zone_agent.py
\* 226-229
ShardCounts(result, line) ==
    LET r == IF line.full # None
             THEN [result EXCEPT !.full_sync_done = line.full[1][1],
                                 !.full_sync_total = line.full[1][2]]
             ELSE result
    IN  IF line.incr # None
        THEN [r EXCEPT !.incremental_sync_done = line.incr[1][1],
                       !.incremental_sync_total = line.incr[1][2]]
        ELSE r

\* collector._parse_sync_block, the status keyword of one line: two ifs, the
\* second one wins
CollectorStatusFirstWins(status, line) ==
    IF status # "unknown" THEN status
    ELSE IF line.caught_up THEN "caught up"
    ELSE IF line.syncing /\ ~line.sync_colon THEN "syncing"
    ELSE status
CollectorStatus(status, line) ==
    LET s == IF line.syncing /\ ~line.sync_colon THEN "syncing" ELSE status
    IN  IF line.caught_up THEN "caught up" ELSE s

RECURSIVE CollectorParseSyncBlock(_, _, _)
CollectorParseSyncBlock(block, i, result) ==
    IF i > Len(block) THEN result
    ELSE CollectorParseSyncBlock(block, i + 1,
            ShardCounts([result EXCEPT
                            !.status = CollectorStatus(@, block[i])],
                        block[i]))
_parse_sync_block(block) == CollectorParseSyncBlock(block, 1, UnknownBlock)

\* parsed = _parse_sync_block(block_text); parsed["source_zone"] = ...
WithSourceZone(parsed, source_zone) ==
    [status |-> parsed.status,
     full_sync_done |-> parsed.full_sync_done,
     full_sync_total |-> parsed.full_sync_total,
     incremental_sync_done |-> parsed.incremental_sync_done,
     incremental_sync_total |-> parsed.incremental_sync_total,
     source_zone |-> source_zone]

\* collector.parse_sync_status_text; metadata_sync stays {} (None here)
\* when the text has no metadata sync line
parse_sync_status_text(text) ==
    LET names == ParseHeaders(text, 1,
                     [realm |-> "", zonegroup |-> "", zone |-> ""])
        meta_block == _extract_block(text)
        data_blocks == _extract_data_sync_blocks(text)
    IN  [realm |-> names.realm, zonegroup |-> names.zonegroup,
         zone |-> names.zone,
         metadata_sync |-> IF meta_block # <<>>
                           THEN Some(_parse_sync_block(meta_block))
                           ELSE None,
         data_sync |-> [k \in DOMAIN data_blocks |->
                          WithSourceZone(
                              _parse_sync_block(data_blocks[k].lines),
                              data_blocks[k].source_zone)]]

\* zone_agent.py, the agent's own copies
RECURSIVE AgentParseHeaders(_, _, _)
AgentParseHeaders(text, i, result) ==
    IF i > Len(text) THEN result
    ELSE AgentParseHeaders(text, i + 1,
            IF text[i].head = "realm"
            THEN [result EXCEPT !.realm = text[i].name]
            ELSE IF text[i].head = "zonegroup"
            THEN [result EXCEPT !.zonegroup = text[i].name]
            ELSE IF text[i].head = "zone"
            THEN [result EXCEPT !.zone = text[i].name]
            ELSE result)

RECURSIVE AgentExtractBlock(_, _, _, _)
AgentExtractBlock(text, i, capturing, block_lines) ==
    IF i > Len(text) THEN block_lines
    ELSE LET line == text[i]
         IN  IF line.meta_header
             THEN AgentExtractBlock(text, i + 1, TRUE,
                                    Append(block_lines, line))
             ELSE IF ~capturing
             THEN AgentExtractBlock(text, i + 1, FALSE, block_lines)
             ELSE IF /\ ~line.blank /\ ~line.indent8
                     /\ block_lines # <<>> /\ ~line.keyword
             THEN block_lines
             ELSE AgentExtractBlock(text, i + 1, TRUE,
                                    Append(block_lines, line))

RECURSIVE AgentExtractDataSyncBlocks(_, _, _, _, _)
AgentExtractDataSyncBlocks(text, i, cz, cl, blocks) ==
    LET saved == Append(blocks, [source_zone |-> cz[1], lines |-> cl])
    IN  IF i > Len(text)
        THEN IF cz # None THEN saved ELSE blocks
        ELSE LET line == text[i]
             IN  IF line.source # None
                 THEN AgentExtractDataSyncBlocks(text, i + 1, line.source,
                         <<line>>, IF cz # None THEN saved ELSE blocks)
                 ELSE IF cz = None
                 THEN AgentExtractDataSyncBlocks(text, i + 1, None, <<>>,
                                                 blocks)
                 ELSE IF ~line.blank /\ ~line.indent1
                 THEN AgentExtractDataSyncBlocks(text, i + 1, None, <<>>,
                                                 saved)
                 ELSE AgentExtractDataSyncBlocks(text, i + 1, cz,
                         Append(cl, line), blocks)

\* zone_agent._parse_sync_block, the status keyword of one line: if, elif,
\* elif
AgentStatus(status, line) ==
    IF line.caught_up THEN "caught up"
    ELSE IF line.syncing /\ ~line.sync_colon THEN "syncing"
    ELSE IF line.behind THEN "behind"
    ELSE status

RECURSIVE AgentParseSyncBlock(_, _, _)
AgentParseSyncBlock(block, i, result) ==
    IF i > Len(block) THEN result
    ELSE AgentParseSyncBlock(block, i + 1,
            ShardCounts([result EXCEPT !.status = AgentStatus(@, block[i])],
                        block[i]))

\* zone_agent.parse_sync_status_text
agent_parse_sync_status_text(text) ==
    LET names == AgentParseHeaders(text, 1,
                     [realm |-> "", zonegroup |-> "", zone |-> ""])
        meta_block == AgentExtractBlock(text, 1, FALSE, <<>>)
        data_blocks == AgentExtractDataSyncBlocks(text, 1, None, <<>>, <<>>)
    IN  [realm |-> names.realm, zonegroup |-> names.zonegroup,
         zone |-> names.zone,
         metadata_sync |-> IF meta_block # <<>>
                           THEN Some(AgentParseSyncBlock(meta_block, 1,
                                                         UnknownBlock))
                           ELSE None,
         data_sync |-> [k \in DOMAIN data_blocks |->
                          WithSourceZone(
                              AgentParseSyncBlock(data_blocks[k].lines, 1,
                                                  UnknownBlock),
                              data_blocks[k].source_zone)]]

\* no text has been parsed
NoParse == [text |-> <<>>, collector |-> None, agent |-> None]

\* the collector parses the output of "sync status"
ParseCollector ==
    /\ parse.collector = None
    /\ parse' = [parse EXCEPT
                    !.collector = Some(parse_sync_status_text(parse.text))]
    /\ UNCHANGED <<storeVars, appended, view, disc, agent, zoneVars, listing,
                   apiVars, threads, clock, cycles>>

\* the agent parses the same output
ParseAgent ==
    /\ parse.agent = None
    /\ parse' = [parse EXCEPT
                    !.agent = Some(agent_parse_sync_status_text(parse.text))]
    /\ UNCHANGED <<storeVars, appended, view, disc, agent, zoneVars, listing,
                   apiVars, threads, clock, cycles>>

\* A bucket listing request beside the run loop: one GET /api/buckets at
\* any moment of the collector's cycles.
NextBuckets ==
    \/ StartCollectorFromConfig(ThinTopologies)
    \/ RunCycle(1)
    \/ RunWait(1)
    \/ CycleStep(1, ListIn)
    \/ BucketList

SpecBuckets == Init /\ [][NextBuckets]_vars

\* The two sync status parsers on every text within the bounds.
InitParse ==
    /\ EmptyStore
    /\ collector = 0
    /\ collector_thread = 0
    /\ collectors = [c \in Cids |-> NoCollector]
    /\ threads = [t \in Tids |-> NoThread]
    /\ view = NoView
    /\ disc = NoDiscovery
    /\ agent = NoAgent
    /\ zone_agent_data = [z \in AgentZones |-> None]
    /\ zone_agent_history = [z \in AgentZones |-> <<>>]
    /\ pushed = <<>>
    /\ clock = 1
    /\ cycles = 0
    /\ api = [pc |-> "boot", restarts |-> 0]
    /\ \E text \in Texts : parse = [NoParse EXCEPT !.text = text]
    /\ listing = None

NextParse ==
    \/ ParseCollector
    \/ ParseAgent

SpecParse == InitParse /\ [][NextParse]_vars

\* ------------------------------------------------- data pushed by agents
\* what an agent sends as sync_status: nothing, an empty dict, or a parsed
\* sync status
SyncStatuses ==
    {None} \cup {Some([status |-> st, zone |-> z]) :
                    st \in {"caught up", "syncing"}, z \in AgentZones}

\* the payloads of one push, stamped by the agent with its own time
Payloads(now) ==
    {[timestamp |-> now, sync_status |-> ss, sync_errors |-> n] :
        ss \in SyncStatuses, n \in 0..1}

\* entry = dict(payload["sync_status"]) with timestamp, source, zone_name
HistoryEntry(zone_name, payload) ==
    [status |-> payload.sync_status[1].status,
     zone |-> payload.sync_status[1].zone,
     timestamp |-> payload.timestamp,
     source |-> "zone_agent",
     zone_name |-> zone_name]

\* h.append(entry); if len(h) > self.max_snapshots: h.pop(0)
ZoneHistoryAppendNoEvict(h, entry) == Append(h, entry)
ZoneHistoryAppend(h, entry) ==
    IF Len(h) + 1 > max_snapshots THEN Tail(Append(h, entry))
    ELSE Append(h, entry)

\* SyncDataStore.update_zone_agent, one critical section of the store lock
update_zone_agent(zone_name, payload) ==
    /\ zone_agent_data' = [zone_agent_data EXCEPT ![zone_name] = Some(payload)]
    /\ zone_agent_history' =
          IF payload.sync_status # None
          THEN [zone_agent_history EXCEPT ![zone_name] =
                   ZoneHistoryAppend(@, HistoryEntry(zone_name, payload))]
          ELSE zone_agent_history

\* a push reaches the store (api_server.zone_agent_push has accepted it)
ZoneAgentPush ==
    /\ Len(pushed) < MaxPushes
    /\ \E zone_name \in AgentZones, payload \in Payloads(clock) :
         /\ update_zone_agent(zone_name, payload)
         /\ pushed' = Append(pushed, [zone_name |-> zone_name,
                                      payload |-> payload])
    /\ clock' = clock + 1
    /\ UNCHANGED <<storeVars, appended, view, disc, agent, parse, listing,
                   apiVars, threads, cycles>>

NextZoneAgent == ZoneAgentPush

SpecZoneAgent == Init /\ [][NextZoneAgent]_vars

\* The store alone: any sequence of add_bucket_snapshot and
\* add_global_snapshot calls, from any threads (each call is one critical
\* section of the store lock).
StoreSnapshots == {[timestamp |-> clock, status |-> st] : st \in {"ok", "error"}}

StoreAddBucket ==
    /\ clock <= MaxAppends
    /\ \E b \in Buckets, snapshot \in StoreSnapshots :
         /\ add_bucket_snapshot(b, snapshot)
         /\ appended' = [appended EXCEPT !.bucket[b] = Append(@, snapshot)]
    /\ clock' = clock + 1
    /\ UNCHANGED <<otherVars, global_history, bucket_errors, global_errors, apiVars,
                   threads, cycles>>

StoreAddGlobal ==
    /\ clock <= MaxAppends
    /\ \E snapshot \in StoreSnapshots :
         /\ add_global_snapshot(snapshot)
         /\ appended' = [appended EXCEPT !.global = Append(@, snapshot)]
    /\ clock' = clock + 1
    /\ UNCHANGED <<otherVars, bucket_history, bucket_errors, global_errors, apiVars,
                   threads, cycles>>

NextStore ==
    \/ StoreAddBucket
    \/ StoreAddGlobal

SpecStore == Init /\ [][NextStore]_vars

\* ================================================================ claims
Min2(a, b) == IF a <= b THEN a ELSE b
LastN(s, n) == IF Len(s) <= n THEN s ELSE SubSeq(s, Len(s) - n + 1, Len(s))

\* every snapshot now in some bucket history
StoredSnapshots ==
    UNION {Range(bucket_history[b]) : b \in Buckets}
\* the snapshots that compared the primary with the secondaries
ComparedSnapshots == {sn \in StoredSnapshots : ~sn.no_secondary_data}

\* C1: after any sequence of add_bucket_snapshot calls for a bucket its
\* history holds the last min(k, max_snapshots) appended snapshots in the
\* order they were appended, k being the number of calls; the same for
\* add_global_snapshot and the global history.
C1_BoundedHistory ==
    /\ \A b \in Buckets :
         /\ Len(bucket_history[b]) =
               Min2(Len(appended.bucket[b]), max_snapshots)
         /\ bucket_history[b] = LastN(appended.bucket[b], max_snapshots)
    /\ Len(global_history) = Min2(Len(appended.global), max_snapshots)
    /\ global_history = LastN(appended.global, max_snapshots)

\* more calls than the capacity for one bucket and for the global feed:
\* the oldest entries are gone
C1_Witness ==
    \/ /\ Len(appended.global) > max_snapshots
       /\ global_history[1] = appended.global[Len(appended.global) - max_snapshots + 1]
       /\ global_history[1] # appended.global[1]
    \/ \E b \in Buckets :
          /\ Len(appended.bucket[b]) > max_snapshots
          /\ Len(bucket_history[b]) = max_snapshots
          /\ bucket_history[b][1] # appended.bucket[b][1]

\* The progress a replica entry stores, in hundredths of a percent, is the
\* exact value of min(s * 100 / p, 100) (p > 0), 100 (p = s = 0), 0 (else).
ExactProgress(sn, e) ==
    LET pr == sn.primary.num_objects
        se == e.stats.num_objects
    IN  IF pr > 0
        THEN IF se >= pr THEN e.sync_progress_pct = 10000
             ELSE e.sync_progress_pct * pr = se * 10000
        ELSE IF se = 0 THEN e.sync_progress_pct = 10000
             ELSE e.sync_progress_pct = 0

\* ... is that value rounded to the nearest hundredth: at most half a
\* hundredth away from it
RoundedProgress(sn, e) ==
    LET pr == sn.primary.num_objects
        se == e.stats.num_objects
        diff == e.sync_progress_pct * pr - se * 10000
    IN  IF pr > 0
        THEN IF se >= pr THEN e.sync_progress_pct = 10000
             ELSE 2 * diff <= pr /\ -2 * diff <= pr
        ELSE IF se = 0 THEN e.sync_progress_pct = 10000
             ELSE e.sync_progress_pct = 0

ClampedDeltas(sn, e) ==
    /\ e.delta_objects = Max2(sn.primary.num_objects - e.stats.num_objects, 0)
    /\ e.delta_size = Max2(sn.primary.size_actual - e.stats.size_actual, 0)

Stats(n) == [num_objects |-> n, size_actual |-> 0]
\* (100, 80) gives 80 and 20; (0, 0) gives 100 and 0; (50, 60) gives 100 and 0
C2_Examples ==
    /\ ReplicaEntry(Stats(100), Stats(80)).sync_progress_pct = 8000
    /\ ReplicaEntry(Stats(100), Stats(80)).delta_objects = 20
    /\ ReplicaEntry(Stats(0), Stats(0)).sync_progress_pct = 10000
    /\ ReplicaEntry(Stats(0), Stats(0)).delta_objects = 0
    /\ ReplicaEntry(Stats(50), Stats(60)).sync_progress_pct = 10000
    /\ ReplicaEntry(Stats(50), Stats(60)).delta_objects = 0

\* C2 as stated: every replica entry of every stored snapshot has
\* delta_objects = max(p - s, 0), delta_size = max(primary size_actual -
\* secondary size_actual, 0) and progress exactly min(s * 100 / p, 100) when
\* p > 0, 100 when p = s = 0, 0 when p = 0 < s.
C2_AsStated ==
    \A sn \in ComparedSnapshots : \A z \in DOMAIN sn.replicas :
        /\ ClampedDeltas(sn, sn.replicas[z])
        /\ ExactProgress(sn, sn.replicas[z])

\* C2, amended: the same, with the progress rounded to two decimals
\* (1 of 3 objects is stored as 33.33); the three examples of the claim hold.
C2_DeltaAndProgress ==
    /\ C2_Examples
    /\ \A sn \in ComparedSnapshots : \A z \in DOMAIN sn.replicas :
          /\ ClampedDeltas(sn, sn.replicas[z])
          /\ RoundedProgress(sn, sn.replicas[z])

\* a secondary with a third of the primary's objects: stored as 33.33
C2_Witness ==
    \E sn \in ComparedSnapshots : \E z \in DOMAIN sn.replicas :
        /\ sn.primary.num_objects = 3
        /\ sn.replicas[z].stats.num_objects = 1
        /\ sn.replicas[z].sync_progress_pct = 3333
        /\ sn.replicas[z].delta_objects = 2

InPercentRange(x) == 0 <= x /\ x <= 10000

\* C3: in every stored bucket snapshot the per-replica and the aggregate
\* deltas are >= 0, each per-replica progress is within [0, 100], and the
\* headline progress is null exactly when no_secondary_data is set and
\* within [0, 100] otherwise.
C3_SnapshotRanges ==
    \A sn \in StoredSnapshots :
        /\ sn.delta_objects >= 0 /\ sn.delta_size >= 0
        /\ \A z \in DOMAIN sn.replicas :
              /\ sn.replicas[z].delta_objects >= 0
              /\ sn.replicas[z].delta_size >= 0
              /\ InPercentRange(sn.replicas[z].sync_progress_pct)
        /\ (sn.sync_progress_pct = None) <=> sn.no_secondary_data
        /\ sn.sync_progress_pct # None =>
              InPercentRange(sn.sync_progress_pct[1])

\* a secondary ahead of the primary in objects and in bytes, in a snapshot
\* stored next to one without secondary data
C3_Witness ==
    /\ \E sn \in ComparedSnapshots : \E z \in DOMAIN sn.replicas :
          /\ sn.replicas[z].stats.num_objects > sn.primary.num_objects
          /\ sn.replicas[z].stats.size_actual > sn.primary.size_actual
          /\ sn.replicas[z].delta_objects = 0
          /\ sn.replicas[z].sync_progress_pct = 10000

\* the sum of one field over the replica entries of the zones in S
RECURSIVE SumField(_, _, _)
SumField(replicas, S, field) ==
    IF S = {} THEN 0
    ELSE LET z == CHOOSE y \in S : TRUE
         IN  replicas[z][field] + SumField(replicas, S \ {z}, field)

\* the collector that stored the snapshots (one collector per behaviour of
\* SpecCycle)
CycleSecs == Range(collectors[1].secondary_zones)

\* C4: a snapshot with no_secondary_data = false has one replica entry per
\* secondary zone of the topology, its headline progress is the minimum of
\* the replicas' progress and its delta_objects / delta_size are the sums of
\* the replicas' deltas.
C4_Aggregates ==
    \A sn \in ComparedSnapshots :
            /\ DOMAIN sn.replicas = CycleSecs
            /\ sn.sync_progress_pct # None
            /\ \A z \in CycleSecs :
                  sn.sync_progress_pct[1] <= sn.replicas[z].sync_progress_pct
            /\ \E z \in CycleSecs :
                  sn.sync_progress_pct[1] = sn.replicas[z].sync_progress_pct
            /\ sn.delta_objects =
                  SumField(sn.replicas, CycleSecs, "delta_objects")
            /\ sn.delta_size = SumField(sn.replicas, CycleSecs, "delta_size")

\* two secondaries at different progress, both behind
C4_Witness ==
    \E sn \in ComparedSnapshots :
        /\ DOMAIN sn.replicas = {"z1", "z2"}
        /\ sn.replicas["z1"].sync_progress_pct < sn.replicas["z2"].sync_progress_pct
        /\ sn.replicas["z2"].sync_progress_pct < 10000
        /\ sn.replicas["z1"].delta_objects > 0
        /\ sn.replicas["z2"].delta_objects > 0
        /\ sn.sync_progress_pct = Some(sn.replicas["z1"].sync_progress_pct)

\* the thread whose cycle SpecCycle follows, while its cycle record is kept
CycleKept == threads[1].pc \in
    {"secondary", "snapshot", "bucket_sync", "sync_status", "sync_errors", "wait"}

\* C5: every bucket snapshot of a cycle has no_secondary_data = true iff no
\* secondary zone returned a non-empty stats result in the cycle, and
\* single_zone = true iff the topology has no secondary zone; with
\* no_secondary_data the progress is null, the deltas are 0 and replicas is
\* empty.
C5_NoSecondaryData ==
    CycleKept =>
    \A sn \in StoredSnapshots :
        /\ sn.no_secondary_data <=> (threads[1].got = {})
        /\ sn.single_zone <=> (collectors[1].secondary_zones = <<>>)
        /\ sn.no_secondary_data =>
              /\ sn.sync_progress_pct = None
              /\ sn.delta_objects = 0 /\ sn.delta_size = 0
              /\ sn.replicas = EmptyDict

\* secondaries are configured, none returned data, the primary is ahead of
\* nothing it can be compared with
C5_Witness ==
    /\ CycleKept
    /\ collectors[1].secondary_zones # <<>>
    /\ threads[1].got = {}
    /\ \E sn \in StoredSnapshots :
          /\ sn.no_secondary_data /\ ~sn.single_zone
          /\ sn.primary.num_objects > 0
          /\ sn.sync_progress_pct = None

SubCollections == {"bucket_stats", "sync_status", "sync_errors"}

\* a cycle that returned through the end of the try block of collect_once
CycleDone(t) == threads[t].pc = "wait" /\ ~threads[t].raised

\* the last global snapshot is the one _collect_sync_status of thread t stored
SyncStatusStored(t) ==
    /\ threads'[t].pc = "sync_errors"
    /\ global_history' # <<>>
    /\ LET g == global_history'[Len(global_history')]
       IN  /\ g.timestamp = threads[t].ts
           /\ (g.status = "error") <=> ("sync_status" \in threads'[t].failed)

StopCalled(t) ==
    IF threads[t].coll = 0 THEN FALSE ELSE collectors[threads[t].coll].stop

\* the only way a run thread ends: its while test, after stop()
EndsByStopOnly(t) ==
    threads[t].pc # "dead" /\ threads'[t].pc = "dead" =>
        /\ threads[t].pc = "loop"
        /\ StopCalled(t)

\* C8: no failed command and no exception inside a cycle ends the run loop
\* (a run thread ends only at its while test after stop()); every cycle is
\* eventually followed by the interval wait, and the wait by the start of
\* the next cycle unless stop() was called (or the cycle bound is reached).
C8_LoopSurvives ==
    /\ [][EndsByStopOnly(1)]_vars
    /\ InCycle(1) ~> (threads[1].pc = "wait")
    /\ (threads[1].pc = "wait") ~>
          \/ threads[1].pc = "master"
          \/ StopCalled(1)
          \/ cycles >= MaxCycles

\* the first cycle's global sync status failed, the second cycle started
\* all the same, raised, and the thread is in its interval wait again
C8_Witness ==
    /\ threads[1].pc = "wait" /\ threads[1].raised
    /\ threads[1].ts = 2
    /\ ~collectors[1].stop
    /\ global_history # <<>>
    /\ global_history[1] = [timestamp |-> 1, status |-> "error"]

ScheduledInCycle == {t \in RunTids : InCycle(t)}

\* C9: at no time are two scheduled cycles in progress on the store, also
\* across a restart through update_config.
C9_NoScheduledOverlap == Cardinality(ScheduledInCycle) <= 1

\* a free slot for the thread trigger_collection would start
ManualSlotFree == \E t \in ManualTids : threads[t].kind = "none"

\* C10: trigger_collection starts a manual cycle whenever a collector exists,
\* whatever the scheduled thread is doing, and the started thread enters
\* collect_once without waiting for any other cycle.
C10_NoMutualExclusion ==
    /\ (collector # 0 /\ ManualSlotFree) => ENABLED TriggerCollection
    /\ \A t \in ManualTids :
          threads[t].pc = "start" => ENABLED ManualCycle(t)

\* a scheduled and a manual cycle both in progress; b1's history holds one
\* snapshot of each, the later-started manual cycle's stored first
C10_Witness ==
    \E r \in RunTids, m \in ManualTids :
        /\ InCycle(r) /\ InCycle(m)
        /\ threads[r].ts < threads[m].ts
        /\ Len(bucket_history["b1"]) = 2
        /\ bucket_history["b1"][1].timestamp = threads[m].ts
        /\ bucket_history["b1"][2].timestamp = threads[r].ts

\* C11: every access to the store's data happens under the store lock, so
\* the view a get_dashboard_data call returned is never changed by a writer.
C11_ViewNeverChanges == view.taken => view.buckets = view.returned

\* the sync-error step of thread 1 returns normally in this step
ErrorStepDone ==
    /\ threads[1].pc = "sync_errors"
    /\ threads'[1].pc = "wait" /\ ~threads'[1].raised

\* entries in the shards before shard i
RECURSIVE EntriesBefore(_, _)
EntriesBefore(shards, i) ==
    IF i <= 1 THEN 0
    ELSE EntriesBefore(shards, i - 1) + Len(shards[i - 1].entries)

\* the bucket an entry names: what stands before the first ":" of its name
NamedBucket(entry) ==
    IF entry.name = <<>> \/ entry.name[1] = ":" THEN "" ELSE entry.name[1]

\* E lists the entries of the shards, shard by shard and entry by entry
InShardAndEntryOrder(E, shards) ==
    /\ Len(E) = EntriesBefore(shards, Len(shards) + 1)
    /\ \A i \in DOMAIN shards : \A k \in DOMAIN shards[i].entries :
          LET e == E[EntriesBefore(shards, i) + k] IN
          /\ e.shard_id = shards[i].shard_id
          /\ e.entry_id = shards[i].entries[k].id
          /\ e.raw_name = shards[i].entries[k].name
          /\ e.bucket = NamedBucket(shards[i].entries[k])

\* C12: when the sync-error step of a cycle returns, global_errors is the
\* flat list of the entries of that cycle's result in shard and entry
\* order, whatever it held before, and empty when the command failed.
C12_GlobalErrorsReplaced ==
    [][ErrorStepDone =>
          LET result == threads'[1].errs[1] IN
          IF result.err THEN global_errors' = <<>>
          ELSE InShardAndEntryOrder(global_errors', result.shards)]_vars

\* the second cycle's result lists b2 in shard 0 and an unnamed entry in
\* shard 1; the first cycle had listed b1 (its per-bucket list is still
\* there), which the global list no longer holds
C12_Witness ==
    /\ cycles = 2 /\ CycleDone(1)
    /\ threads[1].errs # None
    /\ Len(global_errors) = 2
    /\ global_errors[1].bucket = "b2" /\ global_errors[1].shard_id = 0
    /\ global_errors[2].bucket = "" /\ global_errors[2].shard_id = 1
    /\ bucket_errors["b1"] # <<>>

\* the result of the step has an entry naming bucket b
ResultNames(result, b) ==
    /\ ~result.err
    /\ \E i \in DOMAIN result.shards : \E k \in DOMAIN result.shards[i].entries :
          NamedBucket(result.shards[i].entries[k]) = b

\* C13: the sync-error step replaces bucket_errors[b] (by the entries of
\* the new global list that name b) only for the buckets its result names;
\* every other bucket's list, and every list when the command fails or the
\* step raises, is left as it was.
C13_OnlyNamedBucketsReplaced ==
    [][threads[1].pc = "sync_errors" /\ threads'[1].pc = "wait" =>
          LET result == threads'[1].errs[1] IN
          \A b \in Buckets :
              IF ~threads'[1].raised /\ ResultNames(result, b)
              THEN bucket_errors'[b] =
                      SelectSeq(global_errors', LAMBDA e : e.bucket = b)
              ELSE bucket_errors'[b] = bucket_errors[b]]_vars

\* the second cycle returned an empty error list: b1's errors have cleared,
\* the global list is empty, and b1's entry of the first cycle is still held
C13_Witness ==
    /\ cycles = 2 /\ CycleDone(1)
    /\ threads[1].errs = Some([err |-> FALSE, shards |-> <<>>])
    /\ global_errors = <<>>
    /\ bucket_errors["b1"] # <<>>

MasterFlagged == {k \in DOMAIN disc.zones : disc.zones[k].is_master}

\* C14: after discover returns with at least one zone, exactly one zone has
\* is_master = true and it is master_zone, whatever the period holds.
C14_ExactlyOneMaster ==
    disc.pc = "done" /\ disc.zones # <<>> =>
        /\ Cardinality(MasterFlagged) = 1
        /\ MasterFlagged = {disc.master_zone}

Failed(cmd) == \E i \in DOMAIN disc.cmds :
                  disc.cmds[i].cmd = cmd /\ ~disc.cmds[i].ok
NamedRealmGet(r) == "realm_get_" \o r

\* C15: realm list follows only a failed realm get, and the realm is then
\* fetched again for the first realm listed; zonegroup get follows only a
\* failed period get; discover raises the fatal error exactly when period
\* get and zonegroup get both failed.
C15_FallbackChain ==
    LET c == disc.cmds IN
    /\ \A i \in DOMAIN c :
          /\ c[i].cmd = "realm list" =>
                /\ i > 1 /\ c[i - 1].cmd = "realm get" /\ ~c[i - 1].ok
                /\ (c[i].ok /\ c[i].realms # <<>> /\ i < Len(c)) =>
                      c[i + 1].cmd = NamedRealmGet(c[i].realms[1])
          /\ c[i].cmd \in {NamedRealmGet(r) : r \in {"r1", "r2"}} =>
                /\ i > 1 /\ c[i - 1].cmd = "realm list" /\ c[i - 1].ok
                /\ c[i - 1].realms # <<>>
                /\ c[i].cmd = NamedRealmGet(c[i - 1].realms[1])
          /\ c[i].cmd = "zonegroup get" =>
                i > 1 /\ c[i - 1].cmd = "period get" /\ ~c[i - 1].ok
    /\ disc.pc = "fatal_discover" <=>
          Failed("period get") /\ Failed("zonegroup get")
    /\ disc.pc = "done" =>
          \E i \in DOMAIN c : c[i].cmd \in {"period get", "zonegroup get"}
                              /\ c[i].ok

\* the whole chain: realm get fails, realm list names r2 first, the fetch
\* of r2 fails too, period get fails, zonegroup get succeeds; not fatal
C15_Witness ==
    /\ disc.pc = "done"
    /\ Len(disc.cmds) = 5
    /\ disc.cmds[2].realms = <<"r2", "r1">>
    /\ disc.cmds[3] = [cmd |-> "realm_get_r2", ok |-> FALSE, realms |-> <<>>]
    /\ disc.cmds[5].cmd = "zonegroup get"
    /\ disc.zones # <<>>

\* C17: a probe that fails with "no realm" is not fatal: initialize goes on,
\* does not raise, and the topology has no secondary zones.
C17_NoRealmNotFatal ==
    disc.probe = "no_realm" =>
        /\ disc.pc # "fatal_probe" /\ disc.pc # "fatal_discover"
        /\ disc.secondary_zones = <<>>

\* thread t runs a cycle of a collector whose initialize() raised
OnFailedCollector(t) ==
    IF threads[t].coll = 0 THEN FALSE
    ELSE ~collectors[threads[t].coll].initialized

\* C16: a collector whose initialization failed gets no run loop, and a
\* cycle triggered on it writes nothing to the store; after a failed
\* startup the store stays empty until the configuration is posted.
C16_FailedInitWritesNothing ==
    /\ [](\A t \in Tids : OnFailedCollector(t) => threads[t].kind = "manual")
    /\ []((api.restarts = 0 /\ collector = 1 /\ ~collectors[1].initialized)
             => EmptyStore /\ \A t \in RunTids : threads[t].kind = "none")
    /\ [][\A t \in Tids :
             OnFailedCollector(t) /\ threads'[t] # threads[t]
                 => UNCHANGED storeVars]_vars

\* startup failed, a collection was triggered by hand and its cycle is
\* over: it raised at its first step and the store is still empty
C16_Witness ==
    /\ api.restarts = 0 /\ collector = 1 /\ ~collectors[1].initialized
    /\ \E t \in ManualTids :
          /\ threads[t].pc = "dead" /\ threads[t].raised
          /\ threads[t].ran = {"bucket_stats"}
    /\ EmptyStore

\* this cycle's push_to_primary call has returned
Pushed == agent.push # "none"

\* C18: push_to_primary returns True for every response with a 2xx status
\* and False for every other outcome.
C18_Any2xxSucceeds == Pushed => (agent.success <=> PushAny2xx(agent.push))

\* C19: every cycle makes at most one push, of the payload it collected
\* itself; a failed push is followed by the sleep and the next cycle, not
\* by another attempt, and only the signal ends the loop; no payload is
\* pushed twice.
C19_AtMostOncePerCycle ==
    /\ [](\A i, j \in DOMAIN agent.pushes :
             i < j => agent.pushes[i] < agent.pushes[j])
    /\ [](Pushed => agent.pushes[Len(agent.pushes)] = agent.cycle)
    /\ [](agent.pc = "stopped" => ~agent.running)
    /\ [][agent.pc = "push" => agent'.pc \in {"push", "sleep"}
                                /\ (agent'.pc = "push" => ~agent'.running)]_vars

\* three cycles, three failed pushes, each of its own payload, and the
\* agent is in its sleep before the fourth cycle
C19_Witness ==
    /\ agent.pushes = <<1, 2, 3>>
    /\ agent.failed_in_row = 3
    /\ agent.pc = "sleep" /\ agent.cycle = 3 /\ agent.running

\* C20: the warning is logged exactly in the cycles whose push failed with
\* at least 5 pushes failed in a row since the last successful push; a
\* successful push resets the counter to 0.
C20_WarnsAfterFivePushFailures ==
    /\ agent.warned <=>
          (Pushed /\ ~agent.success /\ agent.failed_in_row >= WarnAfter)
    /\ (Pushed /\ agent.success) => agent.consecutive_failures = 0

\* what main still has to execute, at most, once running is False: the
\* rest of the collection and the push, the rest of one time.sleep(1), the
\* test that breaks the for loop, the test of the while loop
AgentRank(pc) ==
    CASE pc = "collect"  -> 4
      [] pc = "push"     -> 3
      [] pc = "sleeping" -> 3
      [] pc = "sleep"    -> 2
      [] pc = "loop"     -> 1
      [] OTHER           -> 0

\* C21: after the shutdown signal the agent starts no new cycle and no new
\* one-second sleep, every step takes it closer to the end of main, which
\* it reaches; the signal changes nothing but the running flag, so a
\* collection in flight still goes on to its push (or raises into the
\* sleep) and a push in flight is still made and recorded.
C21_StopsAfterSignal ==
    /\ [][~agent.running /\ agent' # agent
             => /\ AgentRank(agent'.pc) < AgentRank(agent.pc)
                /\ agent'.cycle = agent.cycle
                /\ agent'.slept <= agent.slept + 1]_vars
    /\ [][agent.running /\ ~agent'.running
             => agent' = [agent EXCEPT !.running = FALSE]]_vars
    /\ [][agent.pc = "collect" /\ agent'.pc # "collect"
             => agent'.pc \in {"push", "sleep"}]_vars
    /\ [][agent.pc = "push" /\ agent'.pc # "push"
             => /\ agent'.pc = "sleep"
                /\ agent'.pushes = Append(agent.pushes, agent.payload)]_vars
    /\ (~agent.running ~> agent.pc = "stopped")

\* the signal came during the second collection: its payload was pushed
\* all the same, no third cycle began, not one second was slept, and the
\* agent has stopped
C21_Witness ==
    /\ agent.pc = "stopped" /\ ~agent.running
    /\ agent.cycle = 2 /\ agent.pushes = <<1, 2>>
    /\ agent.slept = 0

\* the update_zone_agent calls made for zone z, in order
PushesFor(z) == SelectSeq(pushed, LAMBDA c : c.zone_name = z)
CarriedStatus(c) == c.payload.sync_status # None
EntryOf(c) == HistoryEntry(c.zone_name, c.payload)
EntriesOf(calls) == [k \in DOMAIN calls |-> EntryOf(calls[k])]

\* C22: zone_agent_data[z] is the whole payload of the last push for z;
\* zone_agent_history[z] is made of the sync_status of the last
\* max_snapshots pushes for z that carried one, in push order; a push for
\* a zone leaves the data and the history of the other zones alone.
C22_ZoneAgentStore ==
    /\ [](\A z \in AgentZones :
            LET calls == PushesFor(z)
                kept == SelectSeq(calls, CarriedStatus)
            IN  /\ zone_agent_data[z] =
                      IF calls = <<>> THEN None
                      ELSE Some(calls[Len(calls)].payload)
                /\ Len(zone_agent_history[z]) <= max_snapshots
                /\ zone_agent_history[z] = LastN(EntriesOf(kept), max_snapshots))
    /\ [][\A z \in AgentZones :
             (/\ Len(pushed') = Len(pushed) + 1
              /\ pushed'[Len(pushed')].zone_name # z)
             => /\ zone_agent_data'[z] = zone_agent_data[z]
                /\ zone_agent_history'[z] = zone_agent_history[z]]_vars

\* every push was for z1 and all but the last carried a sync_status: the
\* data is the last payload, which has none, the history holds the latest
\* max_snapshots statuses, the oldest one evicted, and z2 has nothing
C22_Witness ==
    /\ Len(PushesFor("z1")) = MaxPushes
    /\ zone_agent_data["z1"] # None
    /\ zone_agent_data["z1"][1].sync_status = None
    /\ Len(SelectSeq(PushesFor("z1"), CarriedStatus)) = MaxPushes - 1
    /\ Len(zone_agent_history["z1"]) = max_snapshots
    /\ zone_agent_history["z1"][1].timestamp = MaxPushes - max_snapshots
    /\ zone_agent_data["z2"] = None

\* the fetches a cycle made for zone z
FetchesOf(th, z) == SelectSeq(th.via, LAMBDA f : f.zone = z)
\* what initialize found for zone z of collector c
RestRegistered(c, z) ==
    /\ c.setup.config.use_rest_for_bucket_stats
    /\ c.setup.config.access_key /\ c.setup.config.secret_key
    /\ c.setup.zones[z].endpoints
    /\ c.setup.zones[z].ok
\* the cycle of thread t is past its bucket stats fetches
Fetched(t) ==
    threads[t].pc \in {"snapshot", "bucket_sync", "sync_status",
                       "sync_errors", "wait"} /\ ~threads[t].raised

\* C23: in every cycle a secondary zone is fetched through its REST client
\* exactly when initialize registered one (REST mode on, both keys, an
\* endpoint, validation passed) and through the CLI with --rgw-zone <zone>
\* otherwise; the master zone is fetched through the CLI without --rgw-zone.
C23_FetchPath ==
    \A t \in RunTids :
        LET th == threads[t]
            c == collectors[IF th.coll = 0 THEN 1 ELSE th.coll]
        IN  th.via # <<>> =>
              /\ \A k \in DOMAIN th.via :
                    LET f == th.via[k]
                    IN  IF f.zone = MasterZone
                        THEN f = CliFetch(MasterZone, None)
                        ELSE /\ f.method = "rest" <=> RestRegistered(c, f.zone)
                             /\ f.method = "rest" => f = RestFetch(f.zone)
                             /\ f.method # "rest"
                                   => f = CliFetch(f.zone, Some(f.zone))
              /\ \A z \in {MasterZone} \cup SecondaryZones :
                    Len(FetchesOf(th, z)) <= 1
              /\ Fetched(t) =>
                    \A z \in {MasterZone} \cup Range(c.secondary_zones) :
                        Len(FetchesOf(th, z)) = 1

\* REST mode with both keys: the master and z1 were validated, z2 has no
\* endpoint although its validation would pass; the second cycle fetched
\* the master through the CLI, z1 through REST and z2 through the CLI
C23_Witness ==
    /\ collectors[1].initialized
    /\ collectors[1].rest = {MasterZone, "z1"}
    /\ ~collectors[1].setup.zones["z2"].endpoints
    /\ collectors[1].setup.zones["z2"].ok
    /\ cycles = 2 /\ Fetched(1)
    /\ threads[1].via = <<CliFetch(MasterZone, None), RestFetch("z1"),
                          CliFetch("z2", Some("z2"))>>

\* the status keyword a line matches, if any: 'caught up', or 'syncing'
\* without 'sync:'
StatusKeyword(line) ==
    IF line.caught_up THEN "caught up"
    ELSE IF line.syncing /\ ~line.sync_colon THEN "syncing"
    ELSE "none"
\* the keyword of the last matching line of a block
LastKeyword(block) ==
    LET matching == {i \in DOMAIN block : StatusKeyword(block[i]) # "none"}
    IN  IF matching = {} THEN "unknown"
        ELSE StatusKeyword(
                block[CHOOSE i \in matching : \A j \in matching : j <= i])

\* C24: in the collector's parser the status of the metadata block and of
\* every data-sync block is the keyword of the last line of the block that
\* matches one ('caught up', or 'syncing' without 'sync:'), and 'unknown'
\* when no line matches.
C24_LastKeywordDecides ==
    parse.collector # None =>
        LET result == parse.collector[1]
            meta_block == _extract_block(parse.text)
            data_blocks == _extract_data_sync_blocks(parse.text)
        IN  /\ result.metadata_sync # None
                  => result.metadata_sync[1].status = LastKeyword(meta_block)
            /\ Len(result.data_sync) = Len(data_blocks)
            /\ \A k \in DOMAIN data_blocks :
                  result.data_sync[k].status
                      = LastKeyword(data_blocks[k].lines)

\* 'metadata sync syncing' followed by 'metadata is caught up with master'
\* was parsed as caught up; a data block of its own with no keyword line is
\* unknown
C24_Witness ==
    /\ parse.text = <<MetaHeaderLine, MetaCaughtLine, PlainLine,
                      DataHeaderLine>>
    /\ parse.collector # None
    /\ parse.collector[1].metadata_sync[1].status = "caught up"
    /\ parse.collector[1].data_sync[1].status = "unknown"

\* both parsers have run on the text
BothParsed == parse.collector # None /\ parse.agent # None

\* C25: the agent's parser and the collector's give the same names, the
\* same data-sync source zones, and the same status and shard counts for
\* the metadata block and every data-sync block.
C25_ParsersAgree == BothParsed => parse.agent[1] = parse.collector[1]

\* the metadata sync section of a text: its block up to the first
\* 'data sync source' line
RECURSIVE UpToSource(_, _)
UpToSource(block, i) ==
    IF i > Len(block) \/ block[i].source # None THEN SubSeq(block, 1, i - 1)
    ELSE UpToSource(block, i + 1)
MetadataSection(text) == UpToSource(_extract_block(text), 1)

\* C26: metadata_sync is what the lines of the metadata sync section
\* alone give; the lines of a following data sync source block change
\* neither its status nor its shard counts.
C26_MetadataFromItsSection ==
    (parse.collector # None /\ parse.collector[1].metadata_sync # None)
        => parse.collector[1].metadata_sync[1]
              = _parse_sync_block(MetadataSection(parse.text))

\* C27: once a cycle is over, every error entry held for a bucket is also
\* an entry of the global error list.
C27_BucketErrorsInGlobal ==
    CycleDone(1) =>
        \A b \in Buckets :
            Range(bucket_errors[b]) \subseteq Range(global_errors)

\* the snapshots of a history are in non-decreasing order of timestamp
InTimeOrder(h) ==
    \A i, j \in DOMAIN h : i < j => h[i].timestamp <= h[j].timestamp

\* C28: every bucket history, and the global history, is in non-decreasing
\* order of the start times of the cycles that stored its snapshots, under
\* any interleaving of scheduled and manual cycles.
C28_HistoriesInTimeOrder ==
    /\ \A b \in Buckets : InTimeOrder(bucket_history[b])
    /\ InTimeOrder(global_history)

\* C29: the sync_status of a stored snapshot, when present, was collected
\* by the cycle that stored the snapshot, under any interleaving of
\* overlapping cycles.
C29_StatusOnOwnSnapshot ==
    \A sn \in StoredSnapshots :
        sn.sync_status # None => sn.sync_status[1].collected_ts = sn.timestamp

\* C30: the bucket listing succeeds in every store state, with one entry
\* per bucket that has a history, in non-decreasing order of sync progress.
C30_BucketListSucceeds ==
    listing # None =>
        LET l == listing[1].buckets IN
        /\ listing[1].status = 200
        /\ Len(l) = Cardinality({l[k].name : k \in DOMAIN l})
        /\ \A i, j \in DOMAIN l :
              i < j /\ l[i].sync_progress_pct # None
                    /\ l[j].sync_progress_pct # None
                => l[i].sync_progress_pct[1] <= l[j].sync_progress_pct[1]
====
